---- MODULE Spec2Model ----
(***************************************************************************)
(* State-machine model of the balancing market order book of gsy-e         *)
(* (src/src/gsy_e/models/market/balancing.py).                             *)
(*                                                                         *)
(* Python numbers: energies are integers; prices and rates are modelled as *)
(* exact rationals [n, d] in lowest terms (Python floats without rounding  *)
(* error).  A Python dict is a TLA+ function (dict equality ignores        *)
(* insertion order).  An optional value (None or v) is << >> or <<v>>.     *)
(***************************************************************************)
EXTENDS Integers, Sequences, FiniteSets, TLC

(* ------------------------------ bounds -------------------------------- *)
\* number of calls the driver makes on the market
MaxCalls == 3
\* energy of a submitted supply offer (positive energy)
MaxSupply == 3
\* magnitude of the energy of a submitted demand offer (negative energy)
MaxDemand == 2

(* --------------------------- optional values --------------------------- *)
None == << >>
Some(v) == <<v>>
IsNone(x) == x = << >>
Val(x) == x[1]

(* ------------------------ rational arithmetic -------------------------- *)
Abs(x) == IF x < 0 THEN -x ELSE x

RECURSIVE GCD(_, _)
GCD(a, b) == IF b = 0 THEN a ELSE GCD(b, a % b)

\* the rational n/d in lowest terms with positive denominator
Rat(n, d) ==
    LET g == GCD(Abs(n), Abs(d))
        s == IF (n < 0) # (d < 0) THEN -1 ELSE 1
    IN [n |-> s * (Abs(n) \div g), d |-> Abs(d) \div g]

RInt(i) == [n |-> i, d |-> 1]
RAdd(x, y) == Rat(x.n * y.d + y.n * x.d, x.d * y.d)
RSub(x, y) == Rat(x.n * y.d - y.n * x.d, x.d * y.d)
RMul(x, y) == Rat(x.n * y.n, x.d * y.d)
RDiv(x, y) == Rat(x.n * y.d, x.d * y.n)
RLe(x, y) == x.n * y.d <= y.n * x.d
RLt(x, y) == x.n * y.d < y.n * x.d

\* gsy_e.constants.FLOATING_POINT_TOLERANCE (0.00001)
FLOATING_POINT_TOLERANCE == [n |-> 1, d |-> 100000]

(* ------------------------------ inputs -------------------------------- *)
\* DeviceRegistry.REGISTRY keys; "B" and "noone" are not registered
REGISTRY == {"A", "someone", "seller"}
\* who submits: a registered participant, an unregistered participant, an
\* (unregistered) forwarding agent: <<seller, from_agent>>
Submitters == {<<"A", FALSE>>, <<"noone", FALSE>>, <<"noone", TRUE>>}
Buyers == {"A", "B"}
\* energies of submitted offers: demand, invalid, supply
OfferEnergies == {-MaxDemand, 0, MaxSupply}
\* energies a buyer requests, a split is asked for
Energies == (-MaxDemand) .. MaxSupply
Prices == {RInt(1)}
\* trade_rate omitted, below and above the rate of every offer above
TradeRates == {None, Some(RInt(0)), Some(RInt(1))}

\* area.all_markets of the home meter's area
MeterMarkets == {1, 2}
\* Launcher.__init__'s defaults (launcher.py lines 35-36)
n_jobs_default == 4
max_delay_seconds_default == 2

(* ------------------------------- state -------------------------------- *)
VARIABLES
    offers,          \* BalancingMarket.offers: id -> offer
    offer_history,   \* BalancingMarket.offer_history: list of offers
    trades,          \* BalancingMarket.trades: list of trades
    traded_energy,   \* BalancingMarket.traded_energy: identity -> energy
    accumulated,     \* accumulated_{supply,demand}_balancing_trade_{price,energy}
    market_fee,      \* BalancingMarket.market_fee
    readonly,        \* BalancingMarket.readonly
    grid_fee_rate,   \* fee_class.grid_fee_rate
    is_constant_fees,\* BalancingMarket._is_constant_fees
    uuid,            \* number of uuid.uuid4() values drawn so far
    calls,           \* number of calls made so far
    ledger,          \* a listener's account of the notifications received
    last             \* the last call: operation, arguments, exception, result, events

\* an inter-area agent's forwarding engine and the pair of markets it joins
VARIABLES
    source,          \* IAAEngine.markets.source: the market offers are read from
    target,          \* IAAEngine.markets.target: the market they are mirrored into
    forwarded_offers,\* IAAEngine.forwarded_offers: offer id -> OfferInfo
    offer_age,       \* IAAEngine.offer_age: offer id -> tick of first sight
    current_tick,    \* area.current_tick
    uuids,           \* number of uuid.uuid4() values the two markets have drawn
    cls,             \* the engine's class: IAAEngine or its subclass BalancingEngine
    counterpart,     \* the keys of forwarded_offers of the owner's other engine
    steps,           \* number of operations the driver has invoked
    step             \* the last operation invoked: what, where, on what, outcome

market_vars == <<offers, offer_history, trades, traded_energy, accumulated,
                 market_fee, readonly, grid_fee_rate, is_constant_fees, uuid,
                 calls, ledger, last>>

engine_vars == <<source, target, forwarded_offers, offer_age, current_tick,
                 uuids, cls, counterpart, steps, step>>

\* d3a: a home meter in the one-sided markets of its area, and the launcher
\* of simulation workers
VARIABLES
    meter,           \* HomeMeterStrategy: its state, its area's markets, the last event
    launcher         \* Launcher: its settings, run()'s position and local n_jobs

d3a_vars == <<meter, launcher>>

vars == <<market_vars, engine_vars, d3a_vars>>


(* ------------------------- dictionaries, lists ------------------------- *)
\* dict[k] = v
Put(f, k, v) == [x \in DOMAIN f \cup {k} |-> IF x = k THEN v ELSE f[x]]
\* dict.pop(k, None): the dictionary without k
Pop(f, k) == [x \in DOMAIN f \ {k} |-> f[x]]
\* dict.get(k): None or the value
Get(f, k) == IF k \in DOMAIN f THEN Some(f[k]) ELSE None

\* gsy_e_core.util.add_or_create_key / subtract_or_create_key
add_or_create_key(dict, key, value) ==
    IF key \in DOMAIN dict THEN [dict EXCEPT ![key] = @ + value]
    ELSE Put(dict, key, value)
subtract_or_create_key(dict, key, value) ==
    IF key \in DOMAIN dict THEN [dict EXCEPT ![key] = @ - value]
    ELSE Put(dict, key, 0 - value)

\* str(uuid.uuid4()): the (u+1)-th fresh identifier
uuid4(u) == u + 1

(* ------------------------------- offers -------------------------------- *)
\* BalancingOffer(id, now, price, energy, seller, seller_origin=...): the
\* constructor is not given original_price, so original_price is the price;
\* energy_rate is stored at construction
BalancingOffer(id, price, energy, seller, seller_origin) ==
    [id |-> id, price |-> price, energy |-> energy, seller |-> seller,
     seller_origin |-> seller_origin, original_price |-> price,
     energy_rate |-> RDiv(price, RInt(energy))]

\* Offer.update_price(price): sets price and recomputes energy_rate
update_price(offer, price) ==
    [offer EXCEPT !.price = price, !.energy_rate = RDiv(price, RInt(offer.energy))]

\* the offer object held by the book is the same object as its entry in
\* offer_history (the last one appended under that id): a mutation of the
\* object shows in the history
LastIndexOf(h, id) ==
    IF \E i \in 1 .. Len(h) : h[i].id = id
    THEN CHOOSE i \in 1 .. Len(h) :
            h[i].id = id /\ \A j \in (i + 1) .. Len(h) : h[j].id # id
    ELSE 0
MutateInHistory(h, offer) ==
    LET i == LastIndexOf(h, offer.id)
    IN IF i = 0 THEN h ELSE [h EXCEPT ![i] = offer]

(* ------------------------------- results ------------------------------- *)
\* the outcome of one call: the market after it, the uuid counter, the
\* exception raised ("none" when the call returns), the value returned and
\* the notifications delivered to the listeners, in order
Returns(m, u, ret, events) ==
    [m |-> m, uuid |-> u, exc |-> "none", ret |-> ret, events |-> events]
Raises(m, u, exc, events) ==
    [m |-> m, uuid |-> u, exc |-> exc, ret |-> None, events |-> events]

(* --------------------------- balancing_offer --------------------------- *)
\* lines 86-96: the offer is built, stored, appended to the history, announced
balancing_offer_store(m, u, offer, dispatch_event) ==
    Returns([m EXCEPT !.offers = Put(@, offer.id, offer),
                      !.offer_history = Append(@, offer)],
            u, Some(offer),
            IF dispatch_event
            THEN <<[event |-> "BALANCING_OFFER", offer |-> offer]>>
            ELSE << >>)

\* lines 73-85: read-only and zero-energy checks, fee adaptation, the id
balancing_offer_open(m, u, price, energy, seller, original_price, offer_id, adapt_price_with_fees, dispatch_event, seller_origin) ==
    IF m.readonly
    THEN Raises(m, u, "MarketReadOnlyException", << >>)
    ELSE IF energy = 0
    THEN Raises(m, u, "InvalidOffer", << >>)
    ELSE balancing_offer_store(
             m,
             IF IsNone(offer_id) THEN u + 1 ELSE u,
             BalancingOffer(
                 IF IsNone(offer_id) THEN uuid4(u) ELSE Val(offer_id),
                 IF adapt_price_with_fees
                 THEN IF m.is_constant_fees
                      THEN RAdd(price, RMul(m.grid_fee_rate, RInt(energy)))
                      ELSE RMul(price, RAdd(RInt(1), m.grid_fee_rate))
                 ELSE price,
                 energy, seller, seller_origin),
             dispatch_event)

\* (bug) the registry is consulted for forwarding agents too
balancing_offer_gate_agents(m, u, price, energy, seller, original_price, offer_id, from_agent, adapt_price_with_fees, dispatch_event, seller_origin) ==
    IF seller \notin REGISTRY
    THEN Raises(m, u, "DeviceNotInRegistryError", << >>)
    ELSE balancing_offer_open(m, u, price, energy, seller, original_price,
                              offer_id, adapt_price_with_fees, dispatch_event,
                              seller_origin)

\* (original_price is accepted and never used: the BalancingOffer is built
\* without it)
balancing_offer(m, u, price, energy, seller, original_price, offer_id, from_agent, adapt_price_with_fees, dispatch_event, seller_origin) ==
    IF seller \notin REGISTRY /\ ~from_agent
    THEN Raises(m, u, "DeviceNotInRegistryError", << >>)
    ELSE balancing_offer_open(m, u, price, energy, seller, original_price,
                              offer_id, adapt_price_with_fees, dispatch_event,
                              seller_origin)

(* ----------------------------- fee policy ------------------------------ *)
\* OneSidedMarket._calculate_original_prices(offer)
calculate_original_prices(offer) == offer.original_price

\* OneSidedMarket._update_offer_fee_and_calculate_final_price:
\* constant fees are rate * energy, proportional fees are
\* rate * original_price * energy_portion; the final price is
\* energy * trade_rate.  Returns <<fees, trade_price>>.
update_offer_fee_and_calculate_final_price(m, energy, trade_rate, energy_portion, original_price) ==
    << IF m.is_constant_fees
       THEN RMul(m.grid_fee_rate, RInt(energy))
       ELSE RMul(RMul(m.grid_fee_rate, original_price), energy_portion),
       RMul(RInt(energy), trade_rate) >>

determine_offer_price(m, energy_portion, energy, trade_rate, orig_offer_price) ==
    update_offer_fee_and_calculate_final_price(m, energy, trade_rate,
                                               energy_portion, orig_offer_price)

(* ----------------------------- split_offer ----------------------------- *)
\* lines 132-145: r2 is the outcome of the residual's balancing_offer; a
\* listener that raises when it is told of the split ends split_offer with
\* both new offers in the book
split_offer_notify(original_offer, accepted_offer, r2) ==
    IF r2.exc # "none" THEN Raises(r2.m, r2.uuid, r2.exc, << >>)
    ELSE IF r2.m.split_listener_raises
    THEN Raises(r2.m, r2.uuid, "ListenerError",
                <<[event |-> "BALANCING_OFFER_SPLIT",
                   original_offer |-> original_offer,
                   accepted_offer |-> accepted_offer,
                   residual_offer |-> Val(r2.ret)]>>)
    ELSE Returns(r2.m, r2.uuid, <<accepted_offer, Val(r2.ret)>>,
                 <<[event |-> "BALANCING_OFFER_SPLIT",
                    original_offer |-> original_offer,
                    accepted_offer |-> accepted_offer,
                    residual_offer |-> Val(r2.ret)]>>)

\* (bug) the residual is priced by its share of the energy left over, not of
\* the original energy
split_offer_residual_share_of_rest(original_offer, energy, orig_offer_price, r1) ==
    IF r1.exc # "none" THEN Raises(r1.m, r1.uuid, r1.exc, << >>)
    ELSE split_offer_notify(
             original_offer, Val(r1.ret),
             balancing_offer(
                 r1.m, r1.uuid,
                 RMul(RSub(RInt(1),
                           RDiv(RInt(energy), RInt(original_offer.energy - energy))),
                      original_offer.price),
                 original_offer.energy - energy,
                 original_offer.seller,
                 Some(calculate_original_prices(original_offer)),
                 None, TRUE, FALSE, FALSE, original_offer.seller_origin))

\* lines 114-130: r1 is the outcome of the accepted offer's balancing_offer
split_offer_residual(original_offer, energy, orig_offer_price, r1) ==
    IF r1.exc # "none" THEN Raises(r1.m, r1.uuid, r1.exc, << >>)
    ELSE split_offer_notify(
             original_offer, Val(r1.ret),
             balancing_offer(
                 r1.m, r1.uuid,
                 \* residual_price
                 RMul(RSub(RInt(1), RDiv(RInt(energy), RInt(original_offer.energy))),
                      original_offer.price),
                 \* residual_energy
                 original_offer.energy - energy,
                 original_offer.seller,
                 \* original_residual_price
                 Some(RMul(RDiv(RInt(original_offer.energy - energy),
                                RInt(original_offer.energy)),
                           IF IsNone(orig_offer_price)
                           THEN calculate_original_prices(original_offer)
                           ELSE Val(orig_offer_price))),
                 None, TRUE, FALSE, FALSE, original_offer.seller_origin))

\* Returns <<accepted_offer, residual_offer>>.  The original offer is popped
\* before the two balancing_offer calls, so an exception of either leaves the
\* book without it.
split_offer(m, u, original_offer, energy, orig_offer_price) ==
    split_offer_residual(
        original_offer, energy, orig_offer_price,
        balancing_offer(
            [m EXCEPT !.offers = Pop(@, original_offer.id)], u,
            RMul(original_offer.price,
                 RDiv(RInt(energy), RInt(original_offer.energy))),
            energy, original_offer.seller, None, Some(original_offer.id),
            TRUE, FALSE, FALSE, original_offer.seller_origin))

(* ------------------------------- trades -------------------------------- *)
BalancingTrade(id, offer, seller, buyer, residual, seller_origin, buyer_origin, fee_price) ==
    [id |-> id, offer_bid |-> offer, seller |-> seller, buyer |-> buyer,
     residual |-> residual, seller_origin |-> seller_origin,
     buyer_origin |-> buyer_origin, fee_price |-> fee_price]

\* NonBlockchainInterface.handle_blockchain_trade_event: a fresh trade id,
\* the residual passed through.  Returns <<trade_id, residual_offer>>.
handle_blockchain_trade_event(u, offer, buyer, original_offer, residual_offer) ==
    <<uuid4(u), residual_offer>>

update_accumulated_trade_price_energy(acc, trade) ==
    IF trade.offer_bid.energy > 0
    THEN [acc EXCEPT !.supply_price = RAdd(@, trade.offer_bid.price),
                     !.supply_energy = @ + trade.offer_bid.energy]
    ELSE IF trade.offer_bid.energy < 0
    THEN [acc EXCEPT !.demand_price = RAdd(@, trade.offer_bid.price),
                     !.demand_energy = @ + Abs(trade.offer_bid.energy)]
    ELSE acc

\* MarketBase._update_stats_after_trade(trade, order)
update_stats_after_trade(m, trade, order) ==
    [m EXCEPT !.trades = Append(@, trade),
              !.market_fee = RAdd(@, trade.fee_price),
              !.accumulated = update_accumulated_trade_price_energy(@, trade),
              !.traded_energy =
                  subtract_or_create_key(
                      add_or_create_key(@, trade.seller, order.energy),
                      trade.buyer, order.energy)]

(* ----------------------------- accept_offer ---------------------------- *)
\* (bug) the trade notification overtakes the notifications already due
accept_offer_track_notifies_first(m, u, trade, offer, already_tracked, events) ==
    Returns(IF already_tracked THEN m ELSE update_stats_after_trade(m, trade, offer),
            u, Some(trade),
            <<[event |-> "BALANCING_TRADE", trade |-> trade]>> \o events)

\* (bug) line 227 missing: an already tracked trade is counted again
accept_offer_track_always_counts(m, u, trade, offer, already_tracked, events) ==
    Returns(update_stats_after_trade(m, trade, offer), u, Some(trade),
            events \o <<[event |-> "BALANCING_TRADE", trade |-> trade]>>)

\* (bug) the trade is recorded without the statistics of line 227-229
accept_offer_track_appends_only(m, u, trade, offer, already_tracked, events) ==
    Returns(IF already_tracked THEN m ELSE [m EXCEPT !.trades = Append(@, trade)],
            u, Some(trade),
            events \o <<[event |-> "BALANCING_TRADE", trade |-> trade]>>)

\* lines 225-234: statistics unless already_tracked, then the notification
accept_offer_track(m, u, trade, offer, already_tracked, events) ==
    Returns(IF already_tracked THEN m ELSE update_stats_after_trade(m, trade, offer),
            u, Some(trade),
            events \o <<[event |-> "BALANCING_TRADE", trade |-> trade]>>)

\* lines 218-224: bc is <<trade_id, residual_offer>>
accept_offer_trade(m, u, offer, buyer, bc, fees, already_tracked, buyer_origin, events) ==
    accept_offer_track(
        m, u + 1,
        BalancingTrade(bc[1], offer, offer.seller, buyer, bc[2],
                       offer.seller_origin, buyer_origin, fees),
        offer, already_tracked, events)

\* (bug) line 212 missing: the accepted offer stays in the book
accept_offer_settle_keeps_offer(m, u, offer, buyer, original_offer, residual_offer, fees, already_tracked, buyer_origin, events) ==
    accept_offer_trade(
        m, u, offer, buyer,
        handle_blockchain_trade_event(u, offer, buyer, original_offer,
                                      residual_offer),
        fees, already_tracked, buyer_origin, events)

\* lines 211-217: the accepted offer leaves the book, the trade id is drawn
accept_offer_settle(m, u, offer, buyer, original_offer, residual_offer, fees, already_tracked, buyer_origin, events) ==
    accept_offer_trade(
        [m EXCEPT !.offers = Pop(@, offer.id)], u, offer, buyer,
        handle_blockchain_trade_event(u, offer, buyer, original_offer,
                                      residual_offer),
        fees, already_tracked, buyer_origin, events)

\* lines 194-195: offer = accepted_offer; offer.update_price(trade_price).
\* The accepted offer is the object the book and the history hold.
accept_offer_partial_priced(m, u, offer, buyer, accepted_offer, residual_offer, fees, already_tracked, buyer_origin, events) ==
    accept_offer_settle(
        [m EXCEPT !.offers = Put(@, accepted_offer.id, accepted_offer),
                  !.offer_history = MutateInHistory(@, accepted_offer)],
        u, accepted_offer, buyer, offer, Some(residual_offer), fees,
        already_tracked, buyer_origin, events)

\* (bug) the accepted offer is priced with the fees on top of the trade price
accept_offer_partial_adds_fees(s, fp, offer, buyer, already_tracked, buyer_origin) ==
    IF s.exc # "none"
    THEN Raises([s.m EXCEPT !.offers = Put(@, offer.id, offer)],
                s.uuid, s.exc, s.events)
    ELSE accept_offer_partial_priced(
             s.m, s.uuid, offer, buyer,
             update_price(s.ret[1], RAdd(fp[1], fp[2])), s.ret[2],
             fp[1], already_tracked, buyer_origin, s.events)

\* lines 190-193: s is the outcome of split_offer, fp is <<fees, trade_price>>;
\* an exception puts the original offer back under its id
accept_offer_partial(s, fp, offer, buyer, already_tracked, buyer_origin) ==
    IF s.exc # "none"
    THEN Raises([s.m EXCEPT !.offers = Put(@, offer.id, offer)],
                s.uuid, s.exc, s.events)
    ELSE accept_offer_partial_priced(
             s.m, s.uuid, offer, buyer, update_price(s.ret[1], fp[2]), s.ret[2],
             fp[1], already_tracked, buyer_origin, s.events)

\* (bug) the fully accepted offer is put back into the book
accept_offer_full_keeps_offer(m, u, offer, buyer, fp, already_tracked, buyer_origin) ==
    accept_offer_trade(
        [m EXCEPT !.offers = Put(@, offer.id, update_price(offer, fp[2])),
                  !.offer_history = MutateInHistory(@, update_price(offer, fp[2]))],
        u, update_price(offer, fp[2]), buyer,
        handle_blockchain_trade_event(u, update_price(offer, fp[2]), buyer, offer,
                                      None),
        fp[1], already_tracked, buyer_origin, << >>)

\* lines 200-204: fp is <<fees, trade_price>>; offer.update_price(trade_price)
\* on the object the history holds
accept_offer_full(m, u, offer, buyer, fp, already_tracked, buyer_origin) ==
    accept_offer_settle(
        [m EXCEPT !.offer_history = MutateInHistory(@, update_price(offer, fp[2]))],
        u, update_price(offer, fp[2]), buyer, offer, None, fp[1], already_tracked,
        buyer_origin, << >>)

\* lines 206-209: the except clause puts the offer back and re-raises
accept_offer_restore(m, u, offer, exc) ==
    Raises([m EXCEPT !.offers = Put(@, offer.id, offer)], u, exc, << >>)

\* (bug) lines 182-183 missing: a request of zero energy is taken as a
\* partial one
accept_offer_try_zero_is_partial(m, u, offer, buyer, energy, already_tracked, trade_rate, buyer_origin, orig_offer_price) ==
    IF Abs(energy) < Abs(offer.energy)
    THEN IF ~RLe(offer.energy_rate, RAdd(trade_rate, FLOATING_POINT_TOLERANCE))
         THEN accept_offer_restore(m, u, offer, "AssertionError")
         ELSE accept_offer_partial(
                  split_offer(m, u, offer, energy, Some(orig_offer_price)),
                  determine_offer_price(
                      m, RDiv(RInt(energy), RInt(offer.energy)), energy,
                      trade_rate, orig_offer_price),
                  offer, buyer, already_tracked, buyer_origin)
    ELSE IF Abs(energy) > Abs(offer.energy)
    THEN accept_offer_restore(m, u, offer, "InvalidBalancingTradeException")
    ELSE accept_offer_full(
             m, u, offer, buyer,
             update_offer_fee_and_calculate_final_price(
                 m, energy, trade_rate, RInt(1), orig_offer_price),
             already_tracked, buyer_origin)

\* lines 179-209: the try block; m is the market with the offer popped
accept_offer_try(m, u, offer, buyer, energy, already_tracked, trade_rate, buyer_origin, orig_offer_price) ==
    IF energy = 0
    THEN accept_offer_restore(m, u, offer, "InvalidBalancingTradeException")
    ELSE IF Abs(energy) < Abs(offer.energy)
    THEN \* partial energy is requested
      IF ~RLe(offer.energy_rate, RAdd(trade_rate, FLOATING_POINT_TOLERANCE))
      THEN accept_offer_restore(m, u, offer, "AssertionError")
      ELSE accept_offer_partial(
               split_offer(m, u, offer, energy, Some(orig_offer_price)),
               determine_offer_price(
                   m, RDiv(RInt(energy), RInt(offer.energy)), energy,
                   trade_rate, orig_offer_price),
               offer, buyer, already_tracked, buyer_origin)
    ELSE IF Abs(energy) > Abs(offer.energy)
    THEN accept_offer_restore(m, u, offer, "InvalidBalancingTradeException")
    ELSE \* requested energy is equal to the offer's energy
      IF already_tracked
      THEN \* "fees, trade_price = energy * trade_rate": a float is not unpacked
           accept_offer_restore(m, u, offer, "TypeError")
      ELSE accept_offer_full(
               m, u, offer, buyer,
               update_offer_fee_and_calculate_final_price(
                   m, energy, trade_rate, RInt(1), orig_offer_price),
               already_tracked, buyer_origin)

\* lines 163-177: offer is the popped entry (None or the offer), m the market
\* without it
accept_offer_popped(m, u, offer, buyer, energy, already_tracked, trade_rate, buyer_origin) ==
    IF IsNone(offer)
    THEN Raises(m, u, "OfferNotFoundException", << >>)
    ELSE IF IsNone(energy)
    THEN \* "offer.energy > 0 > energy" compares 0 with None
         Raises(m, u, "TypeError", << >>)
    ELSE IF (Val(offer).energy > 0 /\ 0 > Val(energy))
            \/ (Val(offer).energy < 0 /\ 0 < Val(energy))
    THEN Raises(m, u, "InvalidBalancingTradeException", << >>)
    ELSE accept_offer_try(
             m, u, Val(offer), buyer, Val(energy), already_tracked,
             IF IsNone(trade_rate) THEN Val(offer).energy_rate ELSE Val(trade_rate),
             buyer_origin, calculate_original_prices(Val(offer)))

\* energy and trade_rate are optional (None or a value)
accept_offer(m, u, offer_or_id, buyer, energy, already_tracked, trade_rate, buyer_origin) ==
    IF m.readonly
    THEN Raises(m, u, "MarketReadOnlyException", << >>)
    ELSE accept_offer_popped(
             [m EXCEPT !.offers = Pop(@, offer_or_id)], u,
             Get(m.offers, offer_or_id), buyer, energy, already_tracked,
             trade_rate, buyer_origin)

(* ------------------------ delete_balancing_offer ----------------------- *)
\* (bug) lines 244-245 missing: a missing offer is not reported
delete_balancing_offer_unchecked(m, u, offer_or_id) ==
    IF m.readonly
    THEN Raises(m, u, "MarketReadOnlyException", << >>)
    ELSE Returns([m EXCEPT !.offers = Pop(@, offer_or_id)], u, None,
                 IF offer_or_id \in DOMAIN m.offers
                 THEN <<[event |-> "BALANCING_OFFER_DELETED",
                         offer |-> m.offers[offer_or_id]]>>
                 ELSE << >>)

\* (the cached minimum, maximum and average offer prices the call refreshes
\* are not part of the model)
delete_balancing_offer(m, u, offer_or_id) ==
    IF m.readonly
    THEN Raises(m, u, "MarketReadOnlyException", << >>)
    ELSE IF offer_or_id \notin DOMAIN m.offers
    THEN Raises([m EXCEPT !.offers = Pop(@, offer_or_id)], u,
                "OfferNotFoundException", << >>)
    ELSE Returns([m EXCEPT !.offers = Pop(@, offer_or_id)], u, None,
                 <<[event |-> "BALANCING_OFFER_DELETED",
                    offer |-> m.offers[offer_or_id]]>>)

(* ------------------------- the market as state ------------------------ *)
Market ==
    [offers |-> offers, offer_history |-> offer_history, trades |-> trades,
     traded_energy |-> traded_energy, accumulated |-> accumulated,
     market_fee |-> market_fee, readonly |-> readonly,
     grid_fee_rate |-> grid_fee_rate, is_constant_fees |-> is_constant_fees,
     split_listener_raises |-> FALSE]

\* what is observed of a call: the operation, the id it was given and the
\* book's entry under that id before the call, the exception ("none" when the
\* call returned), the arguments of a call that returned, the value returned
\* and the notifications delivered, in order
Observe(op, id, r, args) ==
    [op |-> op, offer_or_id |-> id, offer |-> Get(offers, id), exc |-> r.exc,
     args |-> IF r.exc = "none" THEN Some(args) ELSE None,
     ret |-> r.ret, events |-> r.events]

\* A listener of the market's notifications keeps, for every offer id it has
\* been told of, the id of the submitted offer it descends from (root_of), for
\* every submitted offer its energy (offered) and the energy traded out of it
\* and its residuals so far (traded_out), and the ids it has been told were
\* deleted (deleted).
record_event(l, e) ==
    IF e.event = "BALANCING_OFFER"
    THEN [l EXCEPT !.root_of = Put(@, e.offer.id, e.offer.id),
                   !.offered = Put(@, e.offer.id, e.offer.energy),
                   !.traded_out = Put(@, e.offer.id, 0)]
    ELSE IF e.event = "BALANCING_OFFER_DELETED"
    THEN [l EXCEPT !.deleted = @ \cup {e.offer.id}]
    ELSE IF e.event = "BALANCING_OFFER_SPLIT"
    THEN [l EXCEPT !.root_of = Put(@, e.residual_offer.id,
                                   l.root_of[e.original_offer.id])]
    ELSE IF e.event = "BALANCING_TRADE"
    THEN [l EXCEPT !.traded_out[l.root_of[e.trade.offer_bid.id]] =
                       @ + e.trade.offer_bid.energy]
    ELSE l

RECURSIVE record_events(_, _)
record_events(l, events) ==
    IF events = << >> THEN l
    ELSE record_events(record_event(l, Head(events)), Tail(events))

\* the call's outcome r becomes the next state
Apply(r) ==
    /\ calls < MaxCalls
    /\ calls' = calls + 1
    /\ offers' = r.m.offers
    /\ offer_history' = r.m.offer_history
    /\ trades' = r.m.trades
    /\ traded_energy' = r.m.traded_energy
    /\ accumulated' = r.m.accumulated
    /\ market_fee' = r.m.market_fee
    /\ uuid' = r.uuid
    /\ ledger' = record_events(ledger, r.events)
    /\ UNCHANGED <<readonly, grid_fee_rate, is_constant_fees>>
    /\ UNCHANGED engine_vars
    /\ UNCHANGED d3a_vars

\* OneSidedMarket.__init__: an open market with an empty book, no trades and
\* the grid fee it charges
OneSidedMarket(fee_rate, constant_fees) ==
    [offers |-> << >>, trades |-> << >>, readonly |-> FALSE,
     grid_fee_rate |-> fee_rate, is_constant_fees |-> constant_fees]

\* IAAEngine.__init__ (lines 34-45) on two fresh markets: nothing seen,
\* nothing forwarded
IAAEngine(fee_rate, constant_fees) ==
    /\ source = OneSidedMarket(RInt(0), TRUE)
    /\ target = OneSidedMarket(fee_rate, constant_fees)
    /\ forwarded_offers = << >>
    /\ offer_age = << >>
    /\ current_tick = 0
    /\ uuids = 0
    /\ cls = "IAAEngine"
    /\ counterpart = {}
    /\ steps = 0
    /\ step = [op |-> "init", market |-> "none", id |-> 0, energy |-> 0,
               buyer |-> "none", exc |-> "none"]

\* BalancingMarket.__init__ as a value: empty book, no trades, zero
\* aggregates, the grid fee it charges
BalancingMarket(fee_rate, constant_fees) ==
    [offers |-> << >>, offer_history |-> << >>, trades |-> << >>,
     traded_energy |-> << >>,
     accumulated |-> [supply_price |-> RInt(0), supply_energy |-> 0,
                      demand_price |-> RInt(0), demand_energy |-> 0],
     market_fee |-> RInt(0), readonly |-> FALSE, grid_fee_rate |-> fee_rate,
     is_constant_fees |-> constant_fees, split_listener_raises |-> FALSE]

\* BalancingEngine (lines 275-286) inherits IAAEngine.__init__; the markets
\* it joins are balancing markets
BalancingEngine(fee_rate, constant_fees) ==
    /\ source = BalancingMarket(RInt(0), TRUE)
    /\ target = BalancingMarket(fee_rate, constant_fees)
    /\ forwarded_offers = << >>
    /\ offer_age = << >>
    /\ current_tick = 0
    /\ uuids = 0
    /\ cls = "BalancingEngine"
    /\ counterpart = {}
    /\ steps = 0
    /\ step = [op |-> "init", market |-> "none", id |-> 0, energy |-> 0,
               buyer |-> "none", exc |-> "none"]

\* HomeMeterStrategy as constructed in an area of markets with empty books,
\* holding the energy still to buy in each (home_meter.py lines 55-117)
HomeMeterStrategy(requirement_Wh) ==
    [offers |-> [market \in MeterMarkets |-> << >>],
     energy_requirement_Wh |-> requirement_Wh,
     update_counter |-> 0, uuid |-> 0, steps |-> 0,
     op |-> "init", market |-> 0, exc |-> "none"]

\* Launcher.__init__ (launcher.py lines 33-40): the settings; run() not yet
\* called, no worker started, an empty job queue, the clock at 0
Launcher(n_jobs, max_delay_seconds) ==
    [n_jobs |-> n_jobs, max_delay |-> max_delay_seconds, pc |-> "init",
     local_n_jobs |-> 0, workers |-> 0, queue |-> {}, now |-> 0,
     crowded |-> FALSE]

\* the d3a components as constructed, beside the markets and engines below
D3AInit ==
    /\ meter = HomeMeterStrategy([market \in MeterMarkets |-> 0])
    /\ launcher = Launcher(n_jobs_default, max_delay_seconds_default)

\* BalancingMarket.__init__: empty book, no trades, zero aggregates
BalancingMarketInit ==
    /\ offers = << >>
    /\ offer_history = << >>
    /\ trades = << >>
    /\ traded_energy = << >>
    /\ accumulated = [supply_price |-> RInt(0), supply_energy |-> 0,
                      demand_price |-> RInt(0), demand_energy |-> 0]
    /\ market_fee = RInt(0)
    /\ readonly = FALSE
    /\ grid_fee_rate = RInt(1)
    /\ is_constant_fees = TRUE
    /\ uuid = 0
    /\ calls = 0
    /\ ledger = [root_of |-> << >>, offered |-> << >>, traded_out |-> << >>,
                 deleted |-> {}]
    /\ last = [op |-> "init", offer_or_id |-> 0, offer |-> None, exc |-> "none",
               args |-> None, ret |-> None, events |-> << >>]

\* the balancing market of the checks below, beside an engine left as built
Init ==
    /\ BalancingMarketInit
    /\ IAAEngine(RInt(0), TRUE)
    /\ D3AInit

\* every identifier a caller can hold: 0 stands for "no such offer"
Ids == 0 .. uuid

\* one call: its outcome becomes the next state and is observed
Call(op, id, r, args) ==
    /\ Apply(r)
    /\ last' = Observe(op, id, r, args)

\* a participant (from_agent = FALSE) or a forwarding agent (TRUE) submits
Offer(price, energy, seller, from_agent) ==
    Call("balancing_offer", 0,
         balancing_offer(Market, uuid, price, energy, seller, None, None,
                         from_agent, FALSE, TRUE, Some(seller)),
         [price |-> price, energy |-> energy, seller |-> seller,
          from_agent |-> from_agent])

\* a buyer accepts an offer of the book
Accept(id, buyer, energy, already_tracked, trade_rate) ==
    /\ id \in DOMAIN offers
    /\ Call("accept_offer", id,
            accept_offer(Market, uuid, id, buyer, energy, already_tracked,
                         trade_rate, Some(buyer)),
            [buyer |-> buyer, energy |-> energy,
             already_tracked |-> already_tracked, trade_rate |-> trade_rate])

\* a buyer accepts with an id that is not in the book: the call raises before
\* it reads another argument
AcceptMissing(id) ==
    /\ id \notin DOMAIN offers
    /\ Call("accept_offer", id,
            accept_offer(Market, uuid, id, "B", Some(1), FALSE, None, Some("B")),
            [buyer |-> "B", energy |-> Some(1), already_tracked |-> FALSE,
             trade_rate |-> None])

Delete(id) ==
    Call("delete_balancing_offer", id,
         delete_balancing_offer(Market, uuid, id), << >>)

\* split_offer called on an offer of the book with a proper part of its energy
Split(id, energy) ==
    /\ id \in DOMAIN offers
    /\ Abs(energy) < Abs(offers[id].energy)
    /\ (energy > 0) = (offers[id].energy > 0)
    /\ Call("split_offer", id,
            split_offer(Market, uuid, offers[id], energy, None),
            [energy |-> energy])

\* the area closes the market: market.readonly = True (an assignment, not a
\* call on the market), while calls are still to come
SetReadonly ==
    /\ ~readonly
    /\ calls < MaxCalls
    /\ readonly' = TRUE
    /\ last' = [op |-> "set_readonly", offer_or_id |-> 0, offer |-> None,
                exc |-> "none", args |-> None, ret |-> None, events |-> << >>]
    /\ UNCHANGED <<offers, offer_history, trades, traded_energy, accumulated,
                   market_fee, grid_fee_rate, is_constant_fees, uuid, calls,
                   ledger>>
    /\ UNCHANGED engine_vars
    /\ UNCHANGED d3a_vars

\* a requested energy accept_offer must refuse for an offer of energy E:
\* zero, of the opposite sign, or larger in magnitude
InvalidQuantity(e, E) ==
    \/ e = 0
    \/ (E > 0 /\ e < 0) \/ (E < 0 /\ e > 0)
    \/ Abs(e) > Abs(E)

\* The buyer, already_tracked and trade_rate are varied for the acceptances
\* that get as far as using them: a writable market and a valid quantity of
\* an offer of the book.  An acceptance refused before that (read-only
\* market, no energy, invalid quantity) is made with one choice of them.
AcceptVaries(id, energy) ==
    /\ ~readonly
    /\ ~IsNone(energy)
    /\ ~InvalidQuantity(Val(energy), offers[id].energy)

AcceptRefused(id, energy) == Accept(id, "B", energy, FALSE, None)

Next ==
    \/ \E price \in Prices, energy \in OfferEnergies, s \in Submitters :
          Offer(price, energy, s[1], s[2])
    \/ \E id \in DOMAIN offers, energy \in {None} \cup {Some(e) : e \in Energies} :
          IF AcceptVaries(id, energy)
          THEN \E buyer \in Buyers, already_tracked \in BOOLEAN,
                  trade_rate \in TradeRates :
                  Accept(id, buyer, energy, already_tracked, trade_rate)
          ELSE AcceptRefused(id, energy)
    \/ \E id \in Ids \ DOMAIN offers : AcceptMissing(id)
    \/ \E id \in Ids : Delete(id)
    \/ \E id \in DOMAIN offers, energy \in Energies \ {0} : Split(id, energy)
    \/ SetReadonly

Spec == Init /\ [][Next]_vars

(* ------------- the market with a listener that raises ------------------ *)
\* a buyer accepts an offer of the book while a listener of the market
\* raises when it is told of a split
AcceptListenerRaises(id, buyer, energy, trade_rate) ==
    /\ id \in DOMAIN offers
    /\ Call("accept_offer", id,
            accept_offer([Market EXCEPT !.split_listener_raises = TRUE], uuid, id,
                         buyer, energy, FALSE, trade_rate, Some(buyer)),
            [buyer |-> buyer, energy |-> energy, already_tracked |-> FALSE,
             trade_rate |-> trade_rate])

ListenerNext ==
    \/ \E price \in Prices, energy \in OfferEnergies \ {0} :
          Offer(price, energy, "A", FALSE)
    \/ \E id \in DOMAIN offers, energy \in Energies \ {0} :
          Accept(id, "B", Some(energy), FALSE, None)
    \/ \E id \in DOMAIN offers, energy \in Energies \ {0} :
          AcceptListenerRaises(id, "B", Some(energy), None)
    \/ \E id \in DOMAIN offers : Delete(id)

ListenerSpec == Init /\ [][ListenerNext]_vars

(* ------------------------------------------------------------------------ *)
(*                                 Claims                                   *)
(* ------------------------------------------------------------------------ *)

RECURSIVE TradeDelta(_, _)
\* sum over the first n recorded trades of +energy where who is the seller
\* and -energy where who is the buyer
TradeDelta(who, n) ==
    IF n = 0 THEN 0
    ELSE TradeDelta(who, n - 1)
         + (IF trades[n].seller = who THEN trades[n].offer_bid.energy ELSE 0)
         - (IF trades[n].buyer = who THEN trades[n].offer_bid.energy ELSE 0)

RECURSIVE SumOver(_, _)
SumOver(f, keys) ==
    IF keys = {} THEN 0
    ELSE LET k == CHOOSE x \in keys : TRUE
         IN f[k] + SumOver(f, keys \ {k})

TradeParties == {trades[i].seller : i \in 1 .. Len(trades)}
                \cup {trades[i].buyer : i \in 1 .. Len(trades)}

\* C1: after any sequence of balancing_offer, accept_offer and delete calls,
\* successful or failed, every identity's traded_energy is the sum over the
\* recorded trades of +energy as seller and -energy as buyer, and the
\* traded_energy of all identities sums to zero.
C1_Conservation ==
    /\ DOMAIN traded_energy = TradeParties
    /\ \A who \in DOMAIN traded_energy :
           traded_energy[who] = TradeDelta(who, Len(trades))
    /\ SumOver(traded_energy, DOMAIN traded_energy) = 0

\* two trades out of one offer, a partial one and its residual, with
\* different buyers
C1_Witness ==
    /\ Len(trades) = 2
    /\ ~IsNone(trades[1].residual)
    /\ trades[2].offer_bid.id = Val(trades[1].residual).id
    /\ trades[1].buyer # trades[2].buyer
    /\ traded_energy[trades[1].seller] # 0

AcceptFailures ==
    {"MarketReadOnlyException", "OfferNotFoundException",
     "InvalidBalancingTradeException", "AssertionError"}

\* C2: every accept_offer call that raises (read-only market, unknown id,
\* energy zero, energy too large, energy of the opposite sign, trade_rate
\* below the offer's rate) leaves the book as it was and adds no trade.
\* Stated as the claim states it; the code does not meet it.
C2_FailedAcceptLeavesBook ==
    [][(last'.op = "accept_offer" /\ last'.exc \in AcceptFailures)
       => (offers' = offers /\ trades' = trades)]_vars

\* the trade, the requested energy and the offer as it was before a call of
\* accept_offer that returned, for a request of less than the offer's energy
PartialOutcome(id, book, book2, o, a, trade) ==
    /\ trade.offer_bid.id = id
    /\ trade.offer_bid.energy = a
    /\ ~IsNone(trade.residual)
    /\ Val(trade.residual).energy = o.energy - a
    /\ Val(trade.residual).id # id
    /\ id \notin DOMAIN book2
    /\ Val(trade.residual).id \notin DOMAIN book
    /\ DOMAIN book2 = (DOMAIN book \ {id}) \cup {Val(trade.residual).id}
    /\ book2[Val(trade.residual).id] = Val(trade.residual)

IsPartialAccept(l) ==
    /\ l.op = "accept_offer"
    /\ l.exc = "none"
    /\ ~IsNone(Val(l.args).energy)
    /\ Abs(Val(Val(l.args).energy)) < Abs(Val(l.offer).energy)

\* C3: a successful accept_offer for energy a of the offer's sign with
\* 0 < |a| < |E| returns a trade on the original id with energy a, whose
\* residual has energy E - a and a new id; afterwards the book holds the
\* residual in place of the original id and is otherwise as before.
C3_PartialAcceptance ==
    [][IsPartialAccept(last')
       => PartialOutcome(last'.offer_or_id, offers, offers', Val(last'.offer),
                         Val(Val(last'.args).energy), Val(last'.ret))]_vars

\* a partial acceptance of a demand-side (negative) offer has returned
C3_Witness ==
    /\ IsPartialAccept(last)
    /\ Val(last.offer).energy < -1
    /\ Val(Val(last.ret).residual).id \in DOMAIN offers

SplitExact(e) ==
    /\ e.accepted_offer.energy + e.residual_offer.energy = e.original_offer.energy
    /\ RAdd(e.accepted_offer.price, e.residual_offer.price) = e.original_offer.price

IsAccepted(l) == l.op = "accept_offer" /\ l.exc = "none"

\* the price of the residual, 0 when the trade has none
ResidualPrice(trade) ==
    IF IsNone(trade.residual) THEN RInt(0) ELSE Val(trade.residual).price

ResidualEnergy(trade) ==
    IF IsNone(trade.residual) THEN 0 ELSE Val(trade.residual).energy

\* a trade_rate the call admits for offer o: omitted, or not below the
\* offer's rate
Admissible(trade_rate, o) ==
    \/ IsNone(trade_rate)
    \/ RLe(o.energy_rate, RAdd(Val(trade_rate), FLOATING_POINT_TOLERANCE))

\* the rate the trade is priced at: trade_rate, or the offer's own rate
EffectiveRate(trade_rate, o) ==
    IF IsNone(trade_rate) THEN o.energy_rate ELSE Val(trade_rate)

TradeSumsTo(trade, o) ==
    /\ trade.offer_bid.energy + ResidualEnergy(trade) = o.energy
    /\ RAdd(trade.offer_bid.price, ResidualPrice(trade)) = o.price

\* C5 as stated: for every trade accept_offer returns on an offer of energy E
\* and price P, for every admissible trade_rate, the energies of the traded
\* offer and the residual sum to E and their prices sum to P.
C5_TradeRecordAnyRate ==
    (IsAccepted(last) /\ Admissible(Val(last.args).trade_rate, Val(last.offer)))
    => TradeSumsTo(Val(last.ret), Val(last.offer))

TradePricedAtRate(trade, o, rate) ==
    /\ trade.offer_bid.energy + ResidualEnergy(trade) = o.energy
    /\ trade.offer_bid.price = RMul(RInt(trade.offer_bid.energy), rate)
    /\ ResidualPrice(trade)
           = RMul(RSub(RInt(1), RDiv(RInt(trade.offer_bid.energy), RInt(o.energy))),
                  o.price)

\* C5 (amended): for every trade accept_offer returns on an offer of energy E
\* and price P the energies of the traded offer and the residual sum to E;
\* the traded offer's price is its energy times the trade rate (the offer's
\* own rate P/E when trade_rate is omitted) and the residual's price is
\* P * (1 - a/E), so the prices sum to P when trade_rate is omitted.
C5_TradeRecord ==
    IsAccepted(last)
    => /\ TradePricedAtRate(Val(last.ret), Val(last.offer),
                            EffectiveRate(Val(last.args).trade_rate, Val(last.offer)))
       /\ IsNone(Val(last.args).trade_rate)
          => TradeSumsTo(Val(last.ret), Val(last.offer))

\* a partial trade at a trade_rate above the offer's rate has been returned
C5_Witness ==
    /\ IsAccepted(last)
    /\ ~IsNone(Val(last.args).trade_rate)
    /\ ~IsNone(Val(last.ret).residual)
    /\ RLt(Val(last.offer).energy_rate, Val(Val(last.args).trade_rate))

\* C6: accept_offer on an existing offer of a writable market without an
\* energy argument succeeds, the trade's energy is the offer's energy, the
\* trade has no residual and the offer's id has left the book.
\* Stated as the claim states it; the code does not meet it.
C6_AcceptWithoutEnergy ==
    [][\A id \in Ids, buyer \in Buyers, trade_rate \in TradeRates :
          (~readonly /\ Accept(id, buyer, None, FALSE, trade_rate))
          => /\ last'.exc = "none"
             /\ Val(last'.ret).offer_bid.energy = offers[id].energy
             /\ IsNone(Val(last'.ret).residual)
             /\ id \notin DOMAIN offers']_vars

\* the ids accept_offer has traded in full: a recorded trade without residual
FullyAccepted ==
    {trades[i].offer_bid.id :
         i \in {j \in 1 .. Len(trades) : IsNone(trades[j].residual)}}

\* C7 as stated: once accept_offer has succeeded for an id with the offer's
\* full energy, every later accept_offer on that id fails with
\* OfferNotFoundException and records no further trade.
C7_LaterAcceptNotFound ==
    [][(last'.op = "accept_offer" /\ last'.offer_or_id \in FullyAccepted)
       => (last'.exc = "OfferNotFoundException" /\ trades' = trades)]_vars

\* the energy traded out of a submitted offer and its residuals is between
\* zero and the energy offered
WithinOffered(root) ==
    /\ Abs(ledger.traded_out[root]) <= Abs(ledger.offered[root])
    /\ ledger.traded_out[root] * ledger.offered[root] >= 0

\* C7 (amended): once accept_offer has succeeded for an id with the offer's
\* full energy, every later accept_offer on that id fails - with
\* OfferNotFoundException on a writable market, with MarketReadOnlyException
\* once the market is read-only - and records no further trade; the energy
\* traded out of one submitted offer, all its residuals included, never
\* exceeds the energy offered.
C7_NoDoubleAcceptance ==
    /\ [][(last'.op = "accept_offer" /\ last'.offer_or_id \in FullyAccepted)
          => /\ last'.exc = IF readonly THEN "MarketReadOnlyException"
                            ELSE "OfferNotFoundException"
             /\ trades' = trades
             /\ offers' = offers]_vars
    /\ [](\A root \in DOMAIN ledger.offered : WithinOffered(root))

\* a second acceptance of a fully traded id has been refused on a writable
\* market
C7_Witness ==
    /\ last.op = "accept_offer"
    /\ last.exc = "OfferNotFoundException"
    /\ last.offer_or_id \in FullyAccepted
    /\ ~readonly

\* C8 as stated: delete_balancing_offer on an id that is not in the book
\* always fails with OfferNotFoundException, emits no notification and
\* leaves the book unchanged.
C8_DeleteMissingNotFound ==
    [][(last'.op = "delete_balancing_offer" /\ last'.offer_or_id \notin DOMAIN offers)
       => /\ last'.exc = "OfferNotFoundException"
          /\ last'.events = << >>
          /\ offers' = offers]_vars

\* C8 (amended): delete_balancing_offer on an id that is not in the book
\* fails - with OfferNotFoundException on a writable market, with
\* MarketReadOnlyException once the market is read-only - emits no
\* notification and leaves the book unchanged; a successful delete takes the
\* id out of the book, and a delete of an id already deleted never succeeds.
C8_IdempotentDeletion ==
    [][last'.op = "delete_balancing_offer"
       => /\ last'.offer_or_id \notin DOMAIN offers
             => /\ last'.exc = IF readonly THEN "MarketReadOnlyException"
                               ELSE "OfferNotFoundException"
                /\ last'.events = << >>
                /\ offers' = offers
                /\ ledger' = ledger
          /\ last'.exc = "none"
             => /\ last'.offer_or_id \notin DOMAIN offers'
                /\ last'.offer_or_id \in ledger'.deleted
          /\ last'.offer_or_id \in ledger.deleted => last'.exc # "none"]_vars

\* the delete of an id that was deleted before has been refused
C8_Witness ==
    /\ last.op = "delete_balancing_offer"
    /\ last.exc = "OfferNotFoundException"
    /\ last.offer_or_id \in ledger.deleted

MutatingOps ==
    {"balancing_offer", "accept_offer", "delete_balancing_offer", "split_offer"}

\* C9: once the market is read-only, every call of balancing_offer,
\* accept_offer, delete_balancing_offer and split_offer raises, and the
\* book, the offer history, the trade list and traded_energy are what they
\* were before the call.
\* Stated as the claim states it; the code does not meet it.
C9_ReadOnlyGuard ==
    [][(readonly /\ last'.op \in MutatingOps)
       => /\ last'.exc # "none"
          /\ offers' = offers
          /\ offer_history' = offer_history
          /\ trades' = trades
          /\ traded_energy' = traded_energy]_vars

Unregistered == {s[1] : s \in Submitters} \ REGISTRY

\* the submission was refused at the registry: nothing stored, nothing notified
RefusedAtRegistry ==
    /\ last'.exc = "DeviceNotInRegistryError"
    /\ last'.events = << >>
    /\ offers' = offers
    /\ offer_history' = offer_history
    /\ ledger' = ledger

\* the submission of seller was stored and notified
Stored(seller, energy) ==
    /\ last'.exc = "none"
    /\ Val(last'.ret).seller = seller
    /\ Val(last'.ret).energy = energy
    /\ Val(last'.ret).id \notin DOMAIN offers
    /\ offers' = Put(offers, Val(last'.ret).id, Val(last'.ret))
    /\ last'.events = <<[event |-> "BALANCING_OFFER", offer |-> Val(last'.ret)]>>

\* C10: balancing_offer with from_agent = FALSE by a seller that is not in
\* the device registry fails with DeviceNotInRegistryError, stores no offer
\* and emits no notification; with from_agent = TRUE the registry is not
\* consulted and the submission succeeds when the energy is not zero and the
\* market is writable.
C10_RegistryGate ==
    [][\A price \in Prices, energy \in OfferEnergies, seller \in Unregistered :
          /\ Offer(price, energy, seller, FALSE) => RefusedAtRegistry
          /\ (Offer(price, energy, seller, TRUE) /\ energy # 0 /\ ~readonly)
             => Stored(seller, energy)]_vars

\* a direct submission of an unregistered seller has been refused while the
\* book holds an offer of an unregistered seller that an agent forwarded
C10_Witness ==
    /\ last.op = "balancing_offer"
    /\ last.exc = "DeviceNotInRegistryError"
    /\ \E id \in DOMAIN offers : offers[id].seller \notin REGISTRY

\* the call just made is an accept_offer on an offer of the book with an
\* invalid quantity
AcceptedInvalidQuantity ==
    /\ last'.op = "accept_offer"
    /\ last'.offer_or_id \in DOMAIN offers
    /\ \E e \in Energies :
          /\ InvalidQuantity(e, offers[last'.offer_or_id].energy)
          /\ AcceptRefused(last'.offer_or_id, Some(e))

\* C11 as stated: accept_offer on an existing offer raises
\* InvalidBalancingTradeException, and no other error, whenever the requested
\* energy is zero, of the opposite sign, or larger in magnitude than the
\* offer's energy.
C11_InvalidQuantityAnyMarket ==
    [][AcceptedInvalidQuantity
       => last'.exc = "InvalidBalancingTradeException"]_vars

\* C11 (amended): on a writable market accept_offer on an existing offer
\* raises InvalidBalancingTradeException, and no other error, whenever the
\* requested energy is zero, of the opposite sign, or larger in magnitude
\* than the offer's energy; on a read-only market it raises
\* MarketReadOnlyException.  No trade is recorded either way.
C11_InvalidQuantity ==
    [][AcceptedInvalidQuantity
       => /\ last'.exc = IF readonly THEN "MarketReadOnlyException"
                         ELSE "InvalidBalancingTradeException"
          /\ trades' = trades]_vars

\* an acceptance has been refused for its quantity and the offer, a residual
\* of an earlier trade, is still in the book
C11_Witness ==
    /\ last.op = "accept_offer"
    /\ last.exc = "InvalidBalancingTradeException"
    /\ last.offer_or_id \in DOMAIN offers
    /\ \E i \in 1 .. Len(trades) :
          /\ ~IsNone(trades[i].residual)
          /\ Val(trades[i].residual).id = last.offer_or_id

InvalidTradeErrors == {"InvalidTrade", "InvalidBalancingTradeException"}

\* C12: accept_offer with a buyer equal to the offer's seller fails with an
\* invalid-trade error, records no trade and leaves the offer in the book.
\* Stated as the claim states it; the code does not meet it.
C12_NoSelfTrade ==
    [][\A id \in DOMAIN offers, e \in Energies, already_tracked \in BOOLEAN,
          trade_rate \in TradeRates :
          (~readonly
           /\ Accept(id, offers[id].seller, Some(e), already_tracked, trade_rate))
          => /\ last'.exc \in InvalidTradeErrors
             /\ trades' = trades
             /\ offers' = offers
             /\ \A i \in 1 .. Len(trades') : trades'[i].seller # trades'[i].buyer]_vars

\* the notifications of a partial acceptance: the split, carrying the
\* original offer, the accepted part and the residual, then the trade
SplitThenTrade(events, original, trade) ==
    /\ Len(events) = 2
    /\ events[1].event = "BALANCING_OFFER_SPLIT"
    /\ events[1].original_offer = original
    /\ events[1].accepted_offer.id = trade.offer_bid.id
    /\ events[1].accepted_offer.energy = trade.offer_bid.energy
    /\ events[1].residual_offer = Val(trade.residual)
    /\ events[2] = [event |-> "BALANCING_TRADE", trade |-> trade]

\* C13: a successful partial accept_offer delivers exactly one split
\* notification (original, accepted and residual offer) and exactly one trade
\* notification, the split first and nothing in between; a full acceptance
\* delivers the trade notification alone.
C13_NotificationOrder ==
    IsAccepted(last)
    => IF IsPartialAccept(last)
       THEN SplitThenTrade(last.events, Val(last.offer), Val(last.ret))
       ELSE last.events = <<[event |-> "BALANCING_TRADE", trade |-> Val(last.ret)]>>

\* a partial acceptance of a supply offer has delivered its notifications,
\* among them the split with a residual that is now in the book
C13_Witness ==
    /\ IsPartialAccept(last)
    /\ Val(last.offer).energy > 1
    /\ Len(last.events) = 2
    /\ last.events[1].residual_offer.id \in DOMAIN offers

\* two outcomes of accept_offer agree in success and, when they succeed, in
\* the price of the traded offer and in the fee
SamePricing(tracked, direct) ==
    /\ (tracked.exc = "none") = (direct.exc = "none")
    /\ (tracked.exc = "none" /\ direct.exc = "none")
       => /\ Val(tracked.ret).offer_bid.price = Val(direct.ret).offer_bid.price
          /\ Val(tracked.ret).fee_price = Val(direct.ret).fee_price

\* C14: for the same market state, offer, energy and trade_rate, accept_offer
\* with already_tracked = TRUE succeeds exactly when it succeeds with
\* already_tracked = FALSE, with the same traded offer price and the same
\* fee, for full and for partial matches.
\* Stated as the claim states it; the code does not meet it.
C14_TrackedPricing ==
    \A id \in DOMAIN offers, e \in Energies, buyer \in Buyers,
       trade_rate \in TradeRates :
       SamePricing(accept_offer(Market, uuid, id, buyer, Some(e), TRUE,
                                trade_rate, Some(buyer)),
                   accept_offer(Market, uuid, id, buyer, Some(e), FALSE,
                                trade_rate, Some(buyer)))

IsTrackedAccept(l) == IsAccepted(l) /\ Val(l.args).already_tracked

\* C15: a successful accept_offer with already_tracked = TRUE takes the
\* accepted offer out of the book and delivers the trade notification, and
\* leaves traded_energy, the trade list and the accumulated supply and
\* demand trade price and energy as they were.
C15_TrackedNotCounted ==
    [][IsTrackedAccept(last')
       => /\ last'.offer_or_id \in DOMAIN offers
          /\ last'.offer_or_id \notin DOMAIN offers'
          /\ last'.events[Len(last'.events)]
                 = [event |-> "BALANCING_TRADE", trade |-> Val(last'.ret)]
          /\ traded_energy' = traded_energy
          /\ trades' = trades
          /\ accumulated' = accumulated]_vars

\* an already tracked acceptance has returned on a market that has counted
\* a trade before
C15_Witness ==
    /\ IsTrackedAccept(last)
    /\ Len(trades) > 0
    /\ accumulated.supply_energy + accumulated.demand_energy > 0

(* ------------------------------------------------------------------------ *)
(* The forwarding engine of an inter-area agent                             *)
(* (src/src/gsy_e/models/strategy/area_agents/one_sided_engine.py) between  *)
(* a source and a target one-sided market.  The markets notify the agent    *)
(* synchronously, inside the operation that changes the book, and the agent *)
(* hands the notification to the engine; so the market operations and the   *)
(* engine's handlers call each other, and all of them work on the world w:  *)
(* the two markets, the engine's dictionaries and the uuid counter.         *)
(* ------------------------------------------------------------------------ *)
\* number of operations the driver invokes on the markets and the engine
MaxSteps == 6
\* energy of a submitted offer
MaxEnergy == 2

\* owner.name
OWNER == "IAA"
\* the age, in ticks, an offer needs before it is forwarded (constructor
\* argument min_offer_age)
min_offer_age == 1

Sellers == {"seller"}
OutsideBuyers == {"buyer"}
SourcePrices == {RInt(2)}
GridFees == {RInt(0), RInt(1)}

World ==
    [source |-> source, target |-> target, forwarded_offers |-> forwarded_offers,
     offer_age |-> offer_age, uuid |-> uuids, cls |-> cls,
     counterpart |-> counterpart, listener |-> "none"]

\* the outcome of a call on the world: the world after it, the exception
\* raised ("none" when the call returns) and the value returned
Done(w, ret) == [w |-> w, exc |-> "none", ret |-> ret]
Fails(w, exc) == [w |-> w, exc |-> exc, ret |-> None]

\* gsy_e_core.exceptions: the subclasses of MarketException
MarketException ==
    {"MarketException", "MarketReadOnlyException", "OfferNotFoundException",
     "InvalidOffer", "InvalidTrade"}

\* Offer(id, time, price, energy, seller, original_price, seller_origin)
OfferObject(id, price, energy, seller, original_price, seller_origin) ==
    [id |-> id, price |-> price, energy |-> energy, seller |-> seller,
     seller_origin |-> seller_origin, original_price |-> original_price,
     energy_rate |-> RDiv(price, RInt(energy))]

\* Trade(id, time, offer, seller, buyer, residual, ...)
Trade(id, offer, seller, buyer, residual, seller_origin, buyer_origin, fee_price) ==
    [id |-> id, offer_bid |-> offer, seller |-> seller, buyer |-> buyer,
     residual |-> residual, seller_origin |-> seller_origin,
     buyer_origin |-> buyer_origin, fee_price |-> fee_price]

(* --------------------------- one-sided market --------------------------- *)
\* OneSidedMarket.offer: refused by a closed market, for no energy and for a
\* negative price; otherwise the offer gets an id (a fresh one unless
\* offer_id is given) and is stored.  The engine has no handler for the
\* notification of a new offer.
one_sided_offer(w, side, price, energy, seller, original_price, offer_id, seller_origin) ==
    IF w[side].readonly THEN Fails(w, "MarketReadOnlyException")
    ELSE IF energy = 0 THEN Fails(w, "InvalidOffer")
    ELSE IF RLt(price, RInt(0)) THEN Fails(w, "MarketException")
    ELSE Done([w EXCEPT
                 ![side].offers =
                     Put(w[side].offers, IF IsNone(offer_id) THEN uuid4(w.uuid) ELSE Val(offer_id),
                         OfferObject(
                             IF IsNone(offer_id) THEN uuid4(w.uuid) ELSE Val(offer_id),
                             price, energy, seller,
                             IF IsNone(original_price) THEN price
                             ELSE Val(original_price),
                             seller_origin)),
                 !.uuid = IF IsNone(offer_id) THEN w.uuid + 1 ELSE w.uuid],
              Some(OfferObject(
                       IF IsNone(offer_id) THEN uuid4(w.uuid) ELSE Val(offer_id),
                       price, energy, seller,
                       IF IsNone(original_price) THEN price ELSE Val(original_price),
                       seller_origin)))

\* fee_class.update_forwarded_offer_with_fee(source_rate, original_rate): the
\* rate of the mirror in a market charging the grid fee m.grid_fee_rate
update_forwarded_offer_with_fee(m, source_rate, original_rate) ==
    IF m.is_constant_fees
    THEN RAdd(source_rate, m.grid_fee_rate)
    ELSE RAdd(source_rate, RMul(original_rate, m.grid_fee_rate))

(* ------------------------- ForwardRecords ------------------------------ *)
\* (bug) line 272 missing: the record is stored under the source id only
add_to_forward_offers_source_key_only(w, source_offer, target_offer) ==
    [w EXCEPT !.forwarded_offers =
        Put(w.forwarded_offers, source_offer.id,
            [source_offer |-> source_offer, target_offer |-> target_offer])]

\* lines 269-272: OfferInfo of copies of the two offers, under both ids
add_to_forward_offers(w, source_offer, target_offer) ==
    [w EXCEPT !.forwarded_offers =
        Put(Put(w.forwarded_offers, source_offer.id,
                [source_offer |-> source_offer, target_offer |-> target_offer]),
            target_offer.id,
            [source_offer |-> source_offer, target_offer |-> target_offer])]

\* lines 89-94
delete_forwarded_offer_entries(w, offer) ==
    IF offer.id \notin DOMAIN w.forwarded_offers THEN w
    ELSE [w EXCEPT !.forwarded_offers =
            Pop(Pop(Pop(w.forwarded_offers, offer.id), w.forwarded_offers[offer.id].target_offer.id),
                w.forwarded_offers[offer.id].source_offer.id)]

\* owner.usable_offer(offer): no engine of the agent, this one or its
\* counterpart, has the offer's id among its forwarded offers
usable_offer(w, offer) ==
    /\ offer.id \notin DOMAIN w.forwarded_offers
    /\ offer.id \notin w.counterpart

(* ---------------- the owner's other engine (counterpart) --------------- *)
\* The agent has a second engine for the opposite direction; its target is
\* this engine's source market, and the agent hands every notification to
\* both engines.  Of the counterpart only the keys of its forwarded_offers
\* that are offers of this engine's source market are kept: they are what
\* usable_offer reads.
\* its event_offer_split (lines 225-238): a mirror of its own was split in
\* its target market; the residual becomes a key as well
counterpart_event_offer_split(w, side, accepted_offer, residual_offer) ==
    IF side = "source" /\ accepted_offer.id \in w.counterpart
    THEN [w EXCEPT !.counterpart = w.counterpart \cup {residual_offer.id}]
    ELSE w

\* its event_offer_traded (lines 143-180): a mirror of its own was bought
\* in its target market; the record is dropped
counterpart_event_offer_traded(w, side, trade) ==
    IF side = "source" /\ trade.offer_bid.id \in w.counterpart
    THEN [w EXCEPT !.counterpart = w.counterpart \ {trade.offer_bid.id}]
    ELSE w

(* -------------- market operations and the engine's handlers ------------- *)
RECURSIVE one_sided_split_offer(_, _, _, _, _)
RECURSIVE one_sided_accept_offer(_, _, _, _, _, _, _)
RECURSIVE one_sided_delete_offer(_, _, _)
RECURSIVE event_offer_split(_, _, _, _, _)
RECURSIVE event_offer_traded(_, _)
RECURSIVE event_offer_deleted(_, _)

\* a call that raised passes its exception on; one that returned is
\* followed by ret
Then(r, ret) == IF r.exc # "none" THEN Fails(r.w, r.exc) ELSE Done(r.w, ret)

\* --- OneSidedMarket.split_offer, as BalancingMarket.split_offer ---
\* the listeners are told of the split before split_offer returns
one_sided_split_notify(r2, side, original_offer, accepted_offer) ==
    IF r2.exc # "none" THEN Fails(r2.w, r2.exc)
    ELSE Then(event_offer_split(
                  counterpart_event_offer_split(r2.w, side, accepted_offer,
                                                Val(r2.ret)),
                  side, original_offer, accepted_offer, Val(r2.ret)),
              Some(<<accepted_offer, Val(r2.ret)>>))

\* the residual: the rest of the energy at the rest of the price, a new id
one_sided_split_residual(r1, side, original_offer, energy, orig_offer_price) ==
    IF r1.exc # "none" THEN Fails(r1.w, r1.exc)
    ELSE one_sided_split_notify(
             one_sided_offer(
                 r1.w, side,
                 RMul(RSub(RInt(1), RDiv(RInt(energy), RInt(original_offer.energy))),
                      original_offer.price),
                 original_offer.energy - energy,
                 original_offer.seller,
                 Some(RMul(RDiv(RInt(original_offer.energy - energy),
                                RInt(original_offer.energy)),
                           orig_offer_price)),
                 None, original_offer.seller_origin),
             side, original_offer, Val(r1.ret))

\* the original leaves the book; the accepted offer takes its id
one_sided_split_offer(w, side, original_offer, energy, orig_offer_price) ==
    one_sided_split_residual(
        one_sided_offer(
            [w EXCEPT ![side].offers = Pop(w[side].offers, original_offer.id)], side,
            RMul(original_offer.price,
                 RDiv(RInt(energy), RInt(original_offer.energy))),
            energy, original_offer.seller,
            Some(RMul(RDiv(RInt(energy), RInt(original_offer.energy)),
                      orig_offer_price)),
            Some(original_offer.id), original_offer.seller_origin),
        side, original_offer, energy, orig_offer_price)

\* --- OneSidedMarket.accept_offer, as BalancingMarket.accept_offer ---
\* the accepted offer leaves the book, the trade is recorded, the listeners
\* are told of it before accept_offer returns; fp is <<fees, trade_price>>
one_sided_accept_settle(w, side, offer, buyer, residual_offer, fp, buyer_origin) ==
    Then(event_offer_traded(
             [counterpart_event_offer_traded(w, side, [offer_bid |-> offer])
              EXCEPT ![side].offers = Pop(w[side].offers, offer.id),
                     ![side].trades =
                         Append(w[side].trades, Trade(uuid4(w.uuid), update_price(offer, fp[2]),
                                         offer.seller, buyer, residual_offer,
                                         offer.seller_origin, buyer_origin,
                                         fp[1])),
                     !.uuid = w.uuid + 1],
             Trade(uuid4(w.uuid), update_price(offer, fp[2]), offer.seller, buyer,
                   residual_offer, offer.seller_origin, buyer_origin, fp[1])),
         Some(Trade(uuid4(w.uuid), update_price(offer, fp[2]), offer.seller, buyer,
                    residual_offer, offer.seller_origin, buyer_origin, fp[1])))

\* an exception inside the try block: the original offer is put back
one_sided_accept_restore(w, side, offer, exc) ==
    Fails([w EXCEPT ![side].offers = Put(w[side].offers, offer.id, offer)], exc)

\* partial acceptance: rs is the outcome of split_offer
one_sided_accept_partial(rs, side, offer, buyer, energy, trade_rate, buyer_origin) ==
    IF rs.exc # "none" THEN one_sided_accept_restore(rs.w, side, offer, rs.exc)
    ELSE one_sided_accept_settle(
             rs.w, side, Val(rs.ret)[1], buyer, Some(Val(rs.ret)[2]),
             determine_offer_price(
                 rs.w[side], RDiv(RInt(energy), RInt(Val(rs.ret)[1].energy)),
                 energy, trade_rate, calculate_original_prices(offer)),
             buyer_origin)

\* the try block: the seller may not buy its own offer; no energy and too
\* much energy are refused; less than the offer's energy splits it
one_sided_accept_try(w, side, offer, buyer, energy, trade_rate, buyer_origin) ==
    IF offer.seller = buyer
    THEN one_sided_accept_restore(w, side, offer, "InvalidTrade")
    ELSE IF energy = 0
    THEN one_sided_accept_restore(w, side, offer, "InvalidTrade")
    ELSE IF energy < offer.energy
    THEN one_sided_accept_partial(
             one_sided_split_offer(w, side, offer, energy,
                                   calculate_original_prices(offer)),
             side, offer, buyer, energy, trade_rate, buyer_origin)
    ELSE IF energy > offer.energy
    THEN one_sided_accept_restore(w, side, offer, "InvalidTrade")
    ELSE one_sided_accept_settle(
             w, side, offer, buyer, None,
             determine_offer_price(w[side], RInt(1), energy, trade_rate,
                                   calculate_original_prices(offer)),
             buyer_origin)

\* the id is taken out of the book as soon as it is found; energy and
\* trade_rate default to the offer's
one_sided_accept_offer(w, side, offer_or_id, buyer, energy, trade_rate, buyer_origin) ==
    IF w[side].readonly THEN Fails(w, "MarketReadOnlyException")
    ELSE IF offer_or_id \notin DOMAIN w[side].offers
    THEN Fails(w, "OfferNotFoundException")
    ELSE one_sided_accept_try(
             [w EXCEPT ![side].offers = Pop(w[side].offers, offer_or_id)], side,
             w[side].offers[offer_or_id], buyer,
             IF IsNone(energy) THEN w[side].offers[offer_or_id].energy
             ELSE Val(energy),
             IF IsNone(trade_rate) THEN w[side].offers[offer_or_id].energy_rate
             ELSE Val(trade_rate),
             buyer_origin)

\* --- OneSidedMarket.delete_offer, as BalancingMarket.delete_balancing_offer ---
one_sided_delete_offer(w, side, offer_or_id) ==
    IF w[side].readonly THEN Fails(w, "MarketReadOnlyException")
    ELSE IF offer_or_id \notin DOMAIN w[side].offers
    THEN Fails(w, "OfferNotFoundException")
    ELSE Then(event_offer_deleted(
                  [w EXCEPT ![side].offers = Pop(w[side].offers, offer_or_id)],
                  w[side].offers[offer_or_id]),
              None)

\* --- BalancingMarket.accept_offer (balancing.py 153-234) on a market of the world ---
\* the outcome r of a call on the balancing market `side`, as an outcome on
\* the world
InMarket(w, side, r) ==
    [w |-> [w EXCEPT ![side] = r.m, !.uuid = r.uuid], exc |-> r.exc, ret |-> r.ret]

\* r is the outcome of accept_offer for the whole energy of the offer: the
\* one notification is the trade (lines 230-233), which the agent hands to
\* the engine's event_offer_traded before accept_offer returns
BalancingMarket_accept_notified(w, side, r) ==
    IF r.exc # "none" THEN InMarket(w, side, r)
    ELSE Then(event_offer_traded(InMarket(w, side, r).w, Val(r.ret)), r.ret)

BalancingMarket_accept_offer(w, side, offer_or_id, buyer, energy, trade_rate, buyer_origin) ==
    BalancingMarket_accept_notified(
        w, side,
        accept_offer(w[side], w.uuid, offer_or_id, buyer, energy, FALSE, trade_rate,
                     buyer_origin))

\* owner.accept_offer(market=..., ...) (lines 162-172): market.accept_offer,
\* the method of the market's class; a BalancingEngine joins balancing markets
owner_accept_offer(w, side, offer_or_id, buyer, energy, trade_rate, buyer_origin) ==
    IF w.cls = "BalancingEngine"
    THEN BalancingMarket_accept_offer(w, side, offer_or_id, buyer, energy, trade_rate,
                                      buyer_origin)
    ELSE one_sided_accept_offer(w, side, offer_or_id, buyer, energy, trade_rate,
                                buyer_origin)

\* --- a listener of the target market that buys what it hears of ---
\* _notify_listeners calls the listeners synchronously (balancing.py line
\* 95; dispatch_market_offer_event, line 86 of the engine): w.listener, when
\* there is one, accepts the announced offer whole before the notification
\* returns, and what its accept_offer raises leaves through the notification
listener_event_offer(w, offer) ==
    IF w.listener = "none" THEN Done(w, None)
    ELSE IF w.cls = "BalancingEngine"
    THEN BalancingMarket_accept_offer(w, "target", offer.id, w.listener,
                                      Some(offer.energy), None, Some(w.listener))
    ELSE one_sided_accept_offer(w, "target", offer.id, w.listener,
                                Some(offer.energy), None, w.listener)

(* ----------------------------- IAAEngine -------------------------------- *)
\* abs() of a rate
RAbs(x) == [n |-> Abs(x.n), d |-> x.d]

\* --- event_offer_split (lines 220-267) ---
\* lines 262-263: the age entry of the original id moves to the residual's id
event_offer_split_age(w, original_offer, residual_offer) ==
    IF original_offer.id \in DOMAIN w.offer_age
    THEN [w EXCEPT !.offer_age = Put(Pop(w.offer_age, original_offer.id), residual_offer.id,
                                     w.offer_age[original_offer.id])]
    ELSE w

\* (bug) line 237 missing: the pair of the residuals is not recorded
event_offer_split_in_target_residual_unrecorded(rs, original_offer, accepted_offer, residual_offer) ==
    IF rs.exc # "none" THEN Fails(rs.w, rs.exc)
    ELSE Done(event_offer_split_age(
                  add_to_forward_offers(rs.w, Val(rs.ret)[1], accepted_offer),
                  original_offer, residual_offer),
              None)

\* lines 236-238: rs is the outcome of source.split_offer
event_offer_split_in_target(rs, original_offer, accepted_offer, residual_offer) ==
    IF rs.exc # "none" THEN Fails(rs.w, rs.exc)
    ELSE Done(event_offer_split_age(
                  add_to_forward_offers(
                      add_to_forward_offers(rs.w, Val(rs.ret)[2], residual_offer),
                      Val(rs.ret)[1], accepted_offer),
                  original_offer, residual_offer),
              None)

\* lines 255-257: rs is the outcome of target.split_offer
event_offer_split_in_source(rs, original_offer, accepted_offer, residual_offer) ==
    IF rs.exc # "none" THEN Fails(rs.w, rs.exc)
    ELSE Done(event_offer_split_age(
                  add_to_forward_offers(
                      add_to_forward_offers(rs.w, residual_offer, Val(rs.ret)[2]),
                      accepted_offer, Val(rs.ret)[1]),
                  original_offer, residual_offer),
              None)

\* side is the market the split happened in (market_id)
event_offer_split(w, side, original_offer, accepted_offer, residual_offer) ==
    IF side = "target" /\ accepted_offer.id \in DOMAIN w.forwarded_offers
    THEN IF original_offer.id \notin DOMAIN w.forwarded_offers
         THEN Fails(w, "KeyError")
         ELSE event_offer_split_in_target(
                  one_sided_split_offer(
                      w, "source", w.forwarded_offers[original_offer.id].source_offer,
                      accepted_offer.energy,
                      w.forwarded_offers[original_offer.id].source_offer.original_price),
                  original_offer, accepted_offer, residual_offer)
    ELSE IF side = "source" /\ accepted_offer.id \in DOMAIN w.forwarded_offers
    THEN IF ~usable_offer(w, accepted_offer) \/ OWNER = accepted_offer.seller
         THEN Done(w, None)
         ELSE IF original_offer.id \notin DOMAIN w.forwarded_offers
         THEN Fails(w, "KeyError")
         ELSE event_offer_split_in_source(
                  one_sided_split_offer(
                      w, "target", w.forwarded_offers[original_offer.id].source_offer,
                      accepted_offer.energy,
                      w.forwarded_offers[original_offer.id].source_offer.original_price),
                  original_offer, accepted_offer, residual_offer)
    ELSE Done(w, None)

\* --- event_offer_traded (lines 137-197) ---
\* lines 196-197
event_offer_traded_asserts(w, offer_info) ==
    IF \/ offer_info.source_offer.id \in DOMAIN w.forwarded_offers
       \/ offer_info.target_offer.id \in DOMAIN w.forwarded_offers
    THEN Fails(w, "AssertionError")
    ELSE Done(w, None)

\* (bug) only the key of the source offer is dropped
event_offer_traded_forget_source_key_only(w, offer_info) ==
    event_offer_traded_asserts(
        [w EXCEPT !.forwarded_offers = Pop(w.forwarded_offers, offer_info.source_offer.id),
                  !.offer_age = Pop(w.offer_age, offer_info.source_offer.id)],
        offer_info)

\* lines 179-180 and 191-192: the record and the age entry are dropped
event_offer_traded_forget(w, offer_info) ==
    event_offer_traded_asserts(
        [delete_forwarded_offer_entries(w, offer_info.source_offer)
            EXCEPT !.offer_age = Pop(w.offer_age, offer_info.source_offer.id)],
        offer_info)

\* lines 174-180: ra is the outcome of owner.accept_offer in the source;
\* OfferNotFoundException is raised again, any other exception passes
event_offer_traded_bought(ra, offer_info) ==
    IF ra.exc # "none" THEN Fails(ra.w, ra.exc)
    ELSE event_offer_traded_forget(ra.w, offer_info)

\* (bug) lines 186-187 missing: OfferNotFoundException of the deletion gets out
event_offer_traded_retracted_not_absorbing(rd, offer_info) ==
    IF rd.exc = "none" \/ rd.exc \in MarketException \ {"OfferNotFoundException"}
    THEN event_offer_traded_forget(rd.w, offer_info)
    ELSE Fails(rd.w, rd.exc)

\* lines 184-192: rd is the outcome of owner.delete_offer in the target;
\* OfferNotFoundException is passed over, a MarketException is logged
event_offer_traded_retracted(rd, offer_info) ==
    IF rd.exc = "none" \/ rd.exc \in MarketException
    THEN event_offer_traded_forget(rd.w, offer_info)
    ELSE Fails(rd.w, rd.exc)

\* (bug) line 169: the engine's owner is passed as the origin of the purchase
event_offer_traded_in_target_own_origin(w, trade, offer_info) ==
    event_offer_traded_bought(
        owner_accept_offer(
            w, "source", offer_info.source_offer.id, OWNER,
            Some(trade.offer_bid.energy),
            Some(RSub(trade.offer_bid.energy_rate,
                      RDiv(trade.fee_price, RInt(trade.offer_bid.energy)))),
            OWNER),
        offer_info)

\* lines 143-172: the mirror was accepted in the target market
event_offer_traded_in_target(w, trade, offer_info) ==
    IF ~RLe(RAbs(offer_info.source_offer.energy_rate),
            RAdd(RAbs(offer_info.target_offer.energy_rate),
                 FLOATING_POINT_TOLERANCE))
    THEN Fails(w, "AssertionError")
    ELSE event_offer_traded_bought(
             owner_accept_offer(
                 w, "source", offer_info.source_offer.id, OWNER,
                 Some(trade.offer_bid.energy),
                 Some(RSub(trade.offer_bid.energy_rate,
                           RDiv(trade.fee_price, RInt(trade.offer_bid.energy)))),
                 trade.buyer_origin),
             offer_info)

event_offer_traded(w, trade) ==
    IF trade.offer_bid.id \notin DOMAIN w.forwarded_offers
    THEN Done(w, None)
    ELSE IF trade.offer_bid.id = w.forwarded_offers[trade.offer_bid.id].target_offer.id
    THEN event_offer_traded_in_target(w, trade,
                                      w.forwarded_offers[trade.offer_bid.id])
    ELSE IF trade.offer_bid.id = w.forwarded_offers[trade.offer_bid.id].source_offer.id
    THEN event_offer_traded_retracted(
             one_sided_delete_offer(
                 w, "target",
                 w.forwarded_offers[trade.offer_bid.id].target_offer.id),
             w.forwarded_offers[trade.offer_bid.id])
    ELSE Fails(w, "RuntimeError")

\* --- event_offer_deleted (lines 199-218) ---
\* lines 212-216: rd is the outcome of owner.delete_offer in the target; the
\* record is dropped only when the deletion returned
event_offer_deleted_mirror(rd, offer_info) ==
    IF rd.exc = "none"
    THEN Done(delete_forwarded_offer_entries(rd.w, offer_info.source_offer), None)
    ELSE IF rd.exc \in MarketException THEN Done(rd.w, None)
    ELSE Fails(rd.w, rd.exc)

\* lines 204-216, after the age entry is gone
event_offer_deleted_record(w, offer) ==
    IF offer.id \notin DOMAIN w.forwarded_offers THEN Done(w, None)
    ELSE IF w.forwarded_offers[offer.id].source_offer.id = offer.id
    THEN event_offer_deleted_mirror(
             one_sided_delete_offer(w, "target",
                                    w.forwarded_offers[offer.id].target_offer.id),
             w.forwarded_offers[offer.id])
    ELSE Done(w, None)

\* (mutant) the deletion of a watched source offer only drops its age: the
\* mirror and the record stay
event_offer_deleted_unreconciled(w, offer) ==
    Done([w EXCEPT !.offer_age = Pop(w.offer_age, offer.id)], None)

event_offer_deleted(w, offer) ==
    event_offer_deleted_record([w EXCEPT !.offer_age = Pop(w.offer_age, offer.id)], offer)

\* --- _forward_offer (lines 69-87) and _offer_in_market (lines 52-67) ---
\* (bug) line 54: the rate is taken for the price, without "* offer.energy"
offer_in_market_rate_as_price(w, offer) ==
    one_sided_offer(
        w, "target",
        update_forwarded_offer_with_fee(
            w.target, offer.energy_rate,
            RDiv(offer.original_price, RInt(offer.energy))),
        offer.energy, OWNER, Some(offer.original_price), None, offer.seller_origin)

\* owner.post_offer places the mirror in the target market under the
\* owner's name, at the source rate raised by the target's grid fee
offer_in_market(w, offer) ==
    one_sided_offer(
        w, "target",
        RMul(update_forwarded_offer_with_fee(
                 w.target, offer.energy_rate,
                 RDiv(offer.original_price, RInt(offer.energy))),
             RInt(offer.energy)),
        offer.energy, OWNER, Some(offer.original_price), None, offer.seller_origin)

\* lines 76-87: r is the outcome of _offer_in_market; the record is added
\* (line 82), then the target's listeners hear of the mirror (line 86)
forward_offer_placed(r, offer) ==
    IF r.exc \in MarketException THEN Done(r.w, None)
    ELSE IF r.exc # "none" THEN Fails(r.w, r.exc)
    ELSE Then(listener_event_offer(add_to_forward_offers(r.w, offer, Val(r.ret)),
                                   Val(r.ret)),
              r.ret)

\* (mutant) an offer the target rejects loses its age entry
forward_offer_forgets_rejected(w, offer) ==
    IF RLt(offer.price, RInt(0)) \/ offer_in_market(w, offer).exc # "none"
    THEN Done([w EXCEPT !.offer_age = Pop(w.offer_age, offer.id)], None)
    ELSE forward_offer_placed(offer_in_market(w, offer), offer)

forward_offer(w, offer) ==
    IF RLt(offer.price, RInt(0)) THEN Done(w, None)
    ELSE forward_offer_placed(offer_in_market(w, offer), offer)

\* --- BalancingEngine._forward_offer (lines 275-286) ---
\* lines 284-286: r is the outcome of target.balancing_offer; no exception
\* is caught
BalancingEngine_forward_offer_placed(r, offer) ==
    IF r.exc # "none" THEN Fails(r.w, r.exc)
    ELSE Done(add_to_forward_offers(r.w, offer, Val(r.ret)), r.ret)

\* lines 278-283: balancing_offer(offer.price, offer.energy, owner.name,
\* from_agent=True); every other argument has its default
\* balancing.py lines 94-95: dispatch_event is left True, so the listeners
\* hear of the offer before balancing_offer returns it
balancing_offer_announced(r) ==
    IF r.exc # "none" THEN r
    ELSE Then(listener_event_offer(r.w, Val(r.ret)), r.ret)

BalancingEngine_forward_offer(w, offer) ==
    BalancingEngine_forward_offer_placed(
        balancing_offer_announced(
            InMarket(w, "target",
                     balancing_offer(w.target, w.uuid, offer.price, offer.energy,
                                     OWNER, None, None, TRUE, FALSE, TRUE, None))),
        offer)

\* self._forward_offer(offer) (line 132): the method of the engine's class
self_forward_offer(w, offer) ==
    IF w.cls = "BalancingEngine" THEN BalancingEngine_forward_offer(w, offer)
    ELSE forward_offer(w, offer)

\* --- propagate_offer (lines 99-135) ---
\* lines 101-103
propagate_offer_store_age(w, tick) ==
    [w EXCEPT !.offer_age =
        [id \in DOMAIN w.offer_age \cup DOMAIN w.source.offers |->
            IF id \in DOMAIN w.offer_age THEN w.offer_age[id] ELSE tick]]

\* (bug) lines 109-110 missing: an offer is forwarded whatever its age
propagate_offer_entry_any_age(w, offer_id, age, tick) ==
    IF offer_id \in DOMAIN w.forwarded_offers THEN Done(w, None)
    ELSE IF offer_id \notin DOMAIN w.source.offers
    THEN Done([w EXCEPT !.offer_age = Pop(w.offer_age, offer_id)], None)
    ELSE IF ~usable_offer(w, w.source.offers[offer_id])
    THEN Done([w EXCEPT !.offer_age = Pop(w.offer_age, offer_id)], None)
    ELSE IF OWNER = w.source.offers[offer_id].seller
    THEN Done([w EXCEPT !.offer_age = Pop(w.offer_age, offer_id)], None)
    ELSE self_forward_offer(w, w.source.offers[offer_id])

\* (bug) lines 120-130 missing: every aged offer of the source book is forwarded
propagate_offer_entry_forwards_all(w, offer_id, age, tick) ==
    IF offer_id \in DOMAIN w.forwarded_offers THEN Done(w, None)
    ELSE IF tick - age < min_offer_age THEN Done(w, None)
    ELSE IF offer_id \notin DOMAIN w.source.offers
    THEN Done([w EXCEPT !.offer_age = Pop(w.offer_age, offer_id)], None)
    ELSE self_forward_offer(w, w.source.offers[offer_id])

\* (bug) lines 107-108 and 120-123 missing: an offer that has a record is
\* forwarded like any other
propagate_offer_entry_forwards_again(w, offer_id, age, tick) ==
    IF tick - age < min_offer_age THEN Done(w, None)
    ELSE IF offer_id \notin DOMAIN w.source.offers
    THEN Done([w EXCEPT !.offer_age = Pop(w.offer_age, offer_id)], None)
    ELSE IF OWNER = w.source.offers[offer_id].seller
    THEN Done([w EXCEPT !.offer_age = Pop(w.offer_age, offer_id)], None)
    ELSE self_forward_offer(w, w.source.offers[offer_id])

\* lines 107-132 for one entry (offer_id, age) of the list of offer_age
propagate_offer_entry(w, offer_id, age, tick) ==
    IF offer_id \in DOMAIN w.forwarded_offers THEN Done(w, None)
    ELSE IF tick - age < min_offer_age THEN Done(w, None)
    ELSE IF offer_id \notin DOMAIN w.source.offers
    THEN Done([w EXCEPT !.offer_age = Pop(w.offer_age, offer_id)], None)
    ELSE IF ~usable_offer(w, w.source.offers[offer_id])
    THEN Done([w EXCEPT !.offer_age = Pop(w.offer_age, offer_id)], None)
    ELSE IF OWNER = w.source.offers[offer_id].seller
    THEN Done([w EXCEPT !.offer_age = Pop(w.offer_age, offer_id)], None)
    ELSE self_forward_offer(w, w.source.offers[offer_id])

\* line 106: the entries of list(self.offer_age.items()), one after the
\* other (ids are taken in the order they were drawn); r is the outcome so far
RECURSIVE propagate_offer_entries(_, _, _, _)
propagate_offer_entries(r, ids, ages, tick) ==
    IF r.exc # "none" \/ ids = {} THEN Then(r, None)
    ELSE propagate_offer_entries(
             propagate_offer_entry(r.w, CHOOSE i \in ids : \A j \in ids : i <= j,
                                   ages[CHOOSE i \in ids : \A j \in ids : i <= j],
                                   tick),
             ids \ {CHOOSE i \in ids : \A j \in ids : i <= j}, ages, tick)

propagate_offer_aged(w, tick) ==
    propagate_offer_entries(Done(w, None), DOMAIN w.offer_age, w.offer_age, tick)

propagate_offer(w, tick) ==
    propagate_offer_aged(propagate_offer_store_age(w, tick), tick)

(* --------------------------- the driver -------------------------------- *)
\* the outcome r of an operation becomes the next state
Invoke(r, op, side, id, energy, buyer) ==
    /\ steps < MaxSteps
    /\ steps' = steps + 1
    /\ source' = r.w.source
    /\ target' = r.w.target
    /\ forwarded_offers' = r.w.forwarded_offers
    /\ offer_age' = r.w.offer_age
    /\ uuids' = r.w.uuid
    /\ counterpart' = r.w.counterpart
    /\ UNCHANGED cls
    /\ step' = [op |-> op, market |-> side, id |-> id, energy |-> energy,
                buyer |-> buyer, exc |-> r.exc]
    /\ UNCHANGED market_vars
    /\ UNCHANGED d3a_vars

\* a seller of the source area posts an offer in the source market
PostOffer(price, energy, seller) ==
    /\ Invoke(one_sided_offer(World, "source", price, energy, seller, None, None,
                              seller),
              "offer", "source", uuid4(uuids), energy, seller)
    /\ UNCHANGED current_tick

\* IAAEngine.tick (lines 96-97): the area's tick reaches the engine
Tick ==
    /\ Invoke(propagate_offer(World, current_tick), "tick", "none", 0, 0, "none")
    /\ current_tick' = current_tick + 1

\* a buyer accepts energy of an offer in the book of either market
AcceptOffer(side, id, buyer, energy) ==
    /\ id \in DOMAIN World[side].offers
    /\ Invoke(one_sided_accept_offer(World, side, id, buyer, Some(energy), None,
                                     buyer),
              "accept_offer", side, id, energy, buyer)
    /\ UNCHANGED current_tick

\* an offer in the book of either market is deleted
DeleteOffer(side, id) ==
    /\ id \in DOMAIN World[side].offers
    /\ Invoke(one_sided_delete_offer(World, side, id),
              "delete_offer", side, id, 0, "none")
    /\ UNCHANGED current_tick

EngineInit ==
    /\ BalancingMarketInit
    /\ D3AInit
    /\ \E fee_rate \in GridFees, constant_fees \in BOOLEAN :
          IAAEngine(fee_rate, constant_fees)

EngineNext ==
    \/ \E price \in SourcePrices, seller \in Sellers : PostOffer(price, MaxEnergy, seller)
    \/ Tick
    \/ \E side \in {"source", "target"}, id \in 1 .. uuids, buyer \in OutsideBuyers,
          energy \in 1 .. MaxEnergy :
          AcceptOffer(side, id, buyer, energy)
    \/ \E side \in {"source", "target"}, id \in 1 .. uuids : DeleteOffer(side, id)

EngineSpec == EngineInit /\ [][EngineNext]_vars

(* ------------- the engine at the return of a split_offer --------------- *)
\* split_offer on an offer of the book of either market for a proper part
\* of its energy, as accept_offer calls it for a partial acceptance; the
\* next state is the one split_offer returns in
SplitOffer(side, id, energy) ==
    /\ id \in DOMAIN World[side].offers
    /\ energy < World[side].offers[id].energy
    /\ Invoke(one_sided_split_offer(World, side, World[side].offers[id], energy,
                                    calculate_original_prices(World[side].offers[id])),
              "split_offer", side, id, energy, "none")
    /\ UNCHANGED current_tick

\* accept_offer goes on from the return of its split_offer: the driver
\* invokes nothing after a bare split_offer
SplitNext ==
    \/ \E price \in SourcePrices, seller \in Sellers :
          step.op # "split_offer" /\ PostOffer(price, MaxEnergy, seller)
    \/ step.op # "split_offer" /\ Tick
    \/ \E side \in {"source", "target"}, id \in 1 .. uuids, buyer \in OutsideBuyers,
          energy \in 1 .. MaxEnergy :
          step.op # "split_offer" /\ AcceptOffer(side, id, buyer, energy)
    \/ \E side \in {"source", "target"}, id \in 1 .. uuids :
          step.op # "split_offer" /\ DeleteOffer(side, id)
    \/ \E side \in {"source", "target"}, id \in 1 .. uuids, energy \in 1 .. MaxEnergy :
          step.op # "split_offer" /\ SplitOffer(side, id, energy)

SplitSpec == EngineInit /\ [][SplitNext]_vars

(* ------------------ the driver of a BalancingEngine -------------------- *)
\* energies of the balancing offers of the source market: supply and demand
BalancingEnergies == {MaxEnergy, -1}

\* a registered device posts a balancing offer in the source market
PostBalancingOffer(price, energy, seller) ==
    /\ Invoke(InMarket(World, "source",
                       balancing_offer(source, uuids, price, energy, seller, None,
                                       None, FALSE, FALSE, TRUE, Some(seller))),
              "balancing_offer", "source", uuid4(uuids), energy, seller)
    /\ UNCHANGED current_tick

\* the area closes the target market: market.readonly = True
CloseTarget ==
    /\ ~target.readonly
    /\ Invoke(Done([World EXCEPT !.target.readonly = TRUE], None),
              "set_readonly", "target", 0, 0, "none")
    /\ UNCHANGED current_tick

\* a buyer accepts an offer of the book of either balancing market, for the
\* whole of its energy or for as much energy of the opposite sign
AcceptBalancingOffer(side, id, buyer, sign) ==
    /\ id \in DOMAIN World[side].offers
    /\ Invoke(BalancingMarket_accept_offer(
                  World, side, id, buyer, Some(sign * World[side].offers[id].energy),
                  None, Some(buyer)),
              "accept_offer", side, id, sign * World[side].offers[id].energy, buyer)
    /\ UNCHANGED current_tick

BalancingEngineInit ==
    /\ BalancingMarketInit
    /\ D3AInit
    /\ \E fee_rate \in GridFees : BalancingEngine(fee_rate, TRUE)

BalancingEngineNext ==
    \/ \E price \in SourcePrices, energy \in BalancingEnergies, seller \in Sellers :
          PostBalancingOffer(price, energy, seller)
    \/ Tick
    \/ CloseTarget
    \/ \E side \in {"source", "target"}, id \in 1 .. uuids, buyer \in OutsideBuyers,
          sign \in {1, -1} :
          AcceptBalancingOffer(side, id, buyer, sign)

BalancingEngineSpec == BalancingEngineInit /\ [][BalancingEngineNext]_vars

(* ------- an engine whose target market has a buying listener ---------- *)
\* a tick reaches the engine while a listener of the target market accepts,
\* inside the notification, every offer it is told of
TickListened(buyer) ==
    /\ Invoke(propagate_offer([World EXCEPT !.listener = buyer], current_tick),
              "tick_listened", "none", 0, 0, buyer)
    /\ current_tick' = current_tick + 1

\* an engine of either class on two fresh markets of its kind
ListenedInit ==
    /\ BalancingMarketInit
    /\ D3AInit
    /\ \E fee_rate \in GridFees :
          IAAEngine(fee_rate, TRUE) \/ BalancingEngine(fee_rate, TRUE)

ListenedNext ==
    \/ \E price \in SourcePrices, seller \in Sellers :
          cls = "IAAEngine" /\ PostOffer(price, MaxEnergy, seller)
    \/ \E price \in SourcePrices, seller \in Sellers :
          cls = "BalancingEngine" /\ PostBalancingOffer(price, MaxEnergy, seller)
    \/ Tick
    \/ \E buyer \in OutsideBuyers : TickListened(buyer)
    \/ \E id \in 1 .. uuids : DeleteOffer("source", id)

ListenedSpec == ListenedInit /\ [][ListenedNext]_vars

(* ------------- the driver of an IAAEngine inside its agent ------------- *)
\* number of operations of the driver in AgentSpec
MaxAgentSteps == 5
\* grid fees of the target market: none, and a negative one that brings the
\* rate of every mirror below zero
AgentGridFees == {RInt(0), RInt(-2)}

\* the counterpart engine forwards an offer of its source market into its
\* target, this engine's source market (_forward_offer, lines 69-87): the
\* mirror is sold under the owner's name and its id is a key of the
\* counterpart's forwarded_offers
counterpart_forward_offer(r) ==
    IF r.exc # "none" THEN r
    ELSE Done([r.w EXCEPT !.counterpart = r.w.counterpart \cup {Val(r.ret).id}], r.ret)

CounterpartForward(price, energy, seller_origin) ==
    /\ Invoke(counterpart_forward_offer(
                  one_sided_offer(World, "source", price, energy, OWNER, None, None,
                                  seller_origin)),
              "counterpart_forward", "source", uuid4(uuids), energy, OWNER)
    /\ UNCHANGED current_tick

AgentInit ==
    /\ BalancingMarketInit
    /\ D3AInit
    /\ \E fee_rate \in AgentGridFees : IAAEngine(fee_rate, TRUE)

\* besides the sellers of the source area, the owner's name appears as the
\* seller of a source offer: on the counterpart's mirrors and on an offer
\* posted under that name
AgentNext ==
    \/ \E price \in SourcePrices, seller \in Sellers \cup {OWNER} :
          steps < MaxAgentSteps /\ PostOffer(price, MaxEnergy, seller)
    \/ \E price \in SourcePrices, seller \in Sellers :
          steps < MaxAgentSteps /\ CounterpartForward(price, MaxEnergy, seller)
    \/ steps < MaxAgentSteps /\ Tick
    \/ \E id \in 1 .. uuids, buyer \in OutsideBuyers, energy \in 1 .. MaxEnergy :
          steps < MaxAgentSteps /\ AcceptOffer("source", id, buyer, energy)
    \/ \E side \in {"source", "target"}, id \in 1 .. uuids :
          steps < MaxAgentSteps /\ DeleteOffer(side, id)
    \/ steps < MaxAgentSteps /\ CloseTarget

AgentSpec == AgentInit /\ [][AgentNext]_vars

(* ------------------- the agent while ticks keep arriving --------------- *)
\* the area ticks the engine for as long as it runs (tick, lines 96-97); the
\* other calls stop early enough for an offer posted last to be seen by one
\* tick and to be old enough at a later one
LastCall == MaxSteps - min_offer_age - 1

TickingNext ==
    \/ \E price \in SourcePrices, seller \in Sellers \cup {OWNER} :
          steps < LastCall /\ PostOffer(price, MaxEnergy, seller)
    \/ \E price \in SourcePrices, seller \in Sellers :
          steps < LastCall /\ CounterpartForward(price, MaxEnergy, seller)
    \/ Tick
    \/ \E id \in 1 .. uuids, buyer \in OutsideBuyers, energy \in 1 .. MaxEnergy :
          steps < LastCall /\ AcceptOffer("source", id, buyer, energy)
    \/ \E side \in {"source", "target"}, id \in 1 .. uuids :
          steps < LastCall /\ DeleteOffer(side, id)
    \/ steps < LastCall /\ CloseTarget

\* a step in which the area's tick reaches the engine: of the calls of
\* TickingNext only Tick advances current_tick
TickArrives == steps < MaxSteps /\ current_tick' = current_tick + 1

\* the scheduler calls tick at every tick of the simulation: a tick that
\* can happen does happen
TickingSpec == AgentInit /\ [][TickingNext]_vars /\ WF_current_tick(TickArrives)

(* ------------------------------------------------------------------------ *)
(* Claims about the forwarding engine.  Every state of EngineSpec is a      *)
(* state between two operations of the driver: no market or engine          *)
(* operation is in progress in it.                                          *)
(* ------------------------------------------------------------------------ *)
\* the ForwardRecord under key k has both of its offers in their books
RecordIsLive(k) ==
    /\ forwarded_offers[k].source_offer.id \in DOMAIN source.offers
    /\ forwarded_offers[k].target_offer.id \in DOMAIN target.offers

\* the offer of the target book under id is a mirror the engine placed
IsMirror(id) == target.offers[id].seller = OWNER

\* C16: between operations, an offer id is a key of forwarded_offers if and
\* only if the offer is in its market's book and its counterpart is in the
\* paired market's book: every record has both of its offers in their books,
\* and every mirror in the target book is a key of forwarded_offers - also
\* after the mirror was deleted directly in the target market.
C16_ForwardRecordsLive ==
    /\ \A k \in DOMAIN forwarded_offers : RecordIsLive(k)
    /\ \A id \in DOMAIN target.offers : IsMirror(id) => id \in DOMAIN forwarded_offers

\* the record under key k is reachable from both of its ids, and k is one of them
TwoKeys(k) ==
    /\ k \in {forwarded_offers[k].source_offer.id, forwarded_offers[k].target_offer.id}
    /\ forwarded_offers[k].source_offer.id \in DOMAIN forwarded_offers
    /\ forwarded_offers[k].target_offer.id \in DOMAIN forwarded_offers
    /\ forwarded_offers[forwarded_offers[k].source_offer.id] = forwarded_offers[k]
    /\ forwarded_offers[forwarded_offers[k].target_offer.id] = forwarded_offers[k]

\* C17: in every state between operations, every key of forwarded_offers is
\* the source id or the target id of its record, and both ids of the record
\* are keys that map to that same record.
C17_TwoKeySymmetry == \A k \in DOMAIN forwarded_offers : TwoKeys(k)

\* a partial acceptance of a mirror has returned and the records written by
\* event_offer_split for the two residuals are in forwarded_offers
C17_Witness ==
    /\ step.op = "accept_offer" /\ step.market = "target" /\ step.exc = "none"
    /\ \E k \in DOMAIN forwarded_offers :
          /\ k # forwarded_offers[k].source_offer.id
          /\ forwarded_offers[k].target_offer.energy < MaxEnergy

\* the last trade of a market
LastTrade(m) == m.trades[Len(m.trades)]

\* this step is an accept_offer in the market `side` on the offer id, and it
\* recorded a trade there (whether or not the call went on to return)
TradesIn(side, id) ==
    /\ step'.op = "accept_offer" /\ step'.market = side /\ step'.id = id
    /\ Len(World[side].trades') = Len(World[side].trades) + 1

\* id is the target id of a ForwardRecord: a forwarded mirror
IsForwardedMirror(id) ==
    /\ id \in DOMAIN forwarded_offers
    /\ forwarded_offers[id].target_offer.id = id

\* by the end of the step the record info is gone under both ids and its
\* source id has no age entry
Forgotten(info) ==
    /\ info.source_offer.id \notin DOMAIN forwarded_offers'
    /\ info.target_offer.id \notin DOMAIN forwarded_offers'
    /\ info.source_offer.id \notin DOMAIN offer_age'

\* during the step the engine's owner bought, in the source market, the
\* energy of the target trade from the record's source offer, for the
\* target trade's buyer_origin
BoughtBack(info) ==
    /\ Len(source'.trades) = Len(source.trades) + 1
    /\ LastTrade(source').offer_bid.id = info.source_offer.id
    /\ LastTrade(source').offer_bid.energy = LastTrade(target').offer_bid.energy
    /\ LastTrade(source').buyer = OWNER
    /\ LastTrade(source').buyer_origin = LastTrade(target').buyer_origin

\* C18: when a forwarded mirror is traded in the target market with energy
\* e, the accept_offer call in the target does not end before the engine has
\* accepted energy e of the record's source offer in the source market as
\* buyer OWNER with the target trade's buyer_origin; after it neither id is
\* a key of forwarded_offers and the source id has no offer_age entry.
C18_TargetTradeBoughtBack ==
    [][\A id \in DOMAIN target.offers :
          (IsForwardedMirror(id) /\ TradesIn("target", id))
          => /\ LastTrade(target').offer_bid.energy = step'.energy
             /\ BoughtBack(forwarded_offers[id])
             /\ Forgotten(forwarded_offers[id])]_vars

\* a part of a mirror was bought in the target and the owner bought the
\* same energy in the source
C18_Witness ==
    /\ step.op = "accept_offer" /\ step.market = "target" /\ step.exc = "none"
    /\ target.trades # << >> /\ source.trades # << >>
    /\ LastTrade(target).seller = OWNER
    /\ ~IsNone(LastTrade(target).residual)
    /\ LastTrade(source).buyer = OWNER
    /\ LastTrade(source).offer_bid.energy = step.energy
    /\ step.id \notin DOMAIN forwarded_offers

\* the rate assertion of event_offer_traded (lines 145-148) on a record
RateOrdered(info) ==
    RLe(RAbs(info.source_offer.energy_rate),
        RAdd(RAbs(info.target_offer.energy_rate), FLOATING_POINT_TOLERANCE))

\* C19: with non-negative grid fees the rate assertion of event_offer_traded
\* never fails: no operation ends in an AssertionError, and every record of
\* forwarded_offers, written by forwarding or by a split, has a source rate
\* that does not exceed its target rate beyond the tolerance.
C19_NoArbitrage ==
    /\ step.exc # "AssertionError"
    /\ \A k \in DOMAIN forwarded_offers : RateOrdered(forwarded_offers[k])

\* a mirror whose record was written by a split (the residual of an earlier
\* partial trade) has been traded in the target and bought back in the source
C19_Witness ==
    /\ step.op = "accept_offer" /\ step.market = "target" /\ step.exc = "none"
    /\ Len(target.trades) = 2 /\ Len(source.trades) = 2
    /\ target.trades[1].residual = Some(target.trades[2].offer_bid)
    /\ LastTrade(target).seller = OWNER
    /\ LastTrade(source).buyer = OWNER
    /\ forwarded_offers = << >>

\* id is the source id of a ForwardRecord: a forwarded source offer
IsForwardedSource(id) ==
    /\ id \in DOMAIN forwarded_offers
    /\ forwarded_offers[id].source_offer.id = id

DeletesIn(side, id) ==
    /\ step'.op = "delete_offer" /\ step'.market = side /\ step'.id = id

\* C21: when an offer of the source book is deleted there, then at the end
\* of the deletion: if it was the source side of a ForwardRecord, its mirror
\* is not in the target book and neither id of the record is a key of
\* forwarded_offers - also when the mirror had already gone from the target
\* book; and in any case the offer's id has no offer_age entry.
C21_DeletionReconciled ==
    [][\A id \in DOMAIN source.offers :
          DeletesIn("source", id)
          => /\ step'.exc = "none"
             /\ id \notin DOMAIN offer_age'
             /\ IsForwardedSource(id)
                => /\ forwarded_offers[id].target_offer.id \notin DOMAIN target'.offers
                   /\ forwarded_offers[id].source_offer.id \notin DOMAIN forwarded_offers'
                   /\ forwarded_offers[id].target_offer.id \notin DOMAIN forwarded_offers']_vars

\* the keys this step added to forwarded_offers, and the offers it added to
\* the target book
NewKeys == DOMAIN forwarded_offers' \ DOMAIN forwarded_offers
NewInTarget == DOMAIN target'.offers \ DOMAIN target.offers

\* the source offer id was old enough at this tick: propagate_offer had
\* seen it at an earlier tick t0 (its offer_age entry, written at line 103
\* when the offer is first met in the source book) and current_tick is at
\* least t0 + min_offer_age
OldEnough(id) ==
    /\ id \in DOMAIN offer_age
    /\ current_tick >= offer_age[id] + min_offer_age

\* C22: a propagate_offer call (a tick) places a mirror in the target market
\* only for an offer that is in the source book and that propagate_offer
\* first saw at least min_offer_age ticks before; so an offer that left the
\* source book (deleted, traded away) before that age is never forwarded.
C22_MinimumAge ==
    [][step'.op = "tick"
       => /\ \A k \in NewKeys :
                /\ forwarded_offers'[k].source_offer.id \in DOMAIN source.offers
                /\ OldEnough(forwarded_offers'[k].source_offer.id)
          /\ \A t \in NewInTarget :
                /\ t \in NewKeys
                /\ forwarded_offers'[t].target_offer.id = t]_vars

\* a tick has forwarded an offer at the first tick its age allowed
C22_Witness ==
    /\ step.op = "tick" /\ step.exc = "none"
    /\ \E k \in DOMAIN forwarded_offers :
          /\ IsForwardedSource(k) /\ RecordIsLive(k)
          /\ k \in DOMAIN offer_age
          /\ current_tick - 1 = offer_age[k] + min_offer_age

\* the record info, written by this step, is that of a mirror placed for
\* the source offer it names: the mirror is in the target book, sold under
\* the owner's name, with the energy and the seller_origin of the source
\* offer, and both ids are keys of forwarded_offers for this same record
MirrorOfSource(info) ==
    /\ info.source_offer.id \in DOMAIN source.offers
    /\ info.source_offer = source.offers[info.source_offer.id]
    /\ info.target_offer.id \in DOMAIN target'.offers
    /\ info.target_offer = target'.offers[info.target_offer.id]
    /\ info.target_offer.seller = OWNER
    /\ info.target_offer.energy = info.source_offer.energy
    /\ info.target_offer.seller_origin = info.source_offer.seller_origin
    /\ info.source_offer.id \in DOMAIN forwarded_offers'
    /\ info.target_offer.id \in DOMAIN forwarded_offers'
    /\ forwarded_offers'[info.source_offer.id] = info
    /\ forwarded_offers'[info.target_offer.id] = info

\* C23: every mirror the engine's forward step places in the target market
\* (an offer a tick adds to the target book), for an IAAEngine and for a
\* BalancingEngine alike, is sold under the owner's name, has the energy
\* and the seller_origin of its source offer, and at the end of the step
\* the source id and the mirror's id are keys of forwarded_offers that map
\* to the same record.
C23_ForwardingPreservesOrigin ==
    [][step'.op = "tick"
       => \A t \in NewInTarget :
             /\ t \in DOMAIN forwarded_offers'
             /\ forwarded_offers'[t].target_offer.id = t
             /\ MirrorOfSource(forwarded_offers'[t])]_vars

\* C24: a forward step whose submission the target market rejects returns
\* without raising, for an IAAEngine and for a BalancingEngine alike: no
\* tick ends with an exception; every offer a tick adds to the target book
\* has its record and every record it adds has its mirror in the target
\* book; and a tick on a read-only target, which rejects every submission,
\* adds no key to forwarded_offers and leaves the target market as it was.
C24_RejectedForwardNoOp ==
    [][step'.op = "tick"
       => /\ step'.exc = "none"
          /\ \A t \in NewInTarget : t \in NewKeys
          /\ \A k \in NewKeys :
                forwarded_offers'[k].target_offer.id \in DOMAIN target'.offers
          /\ target.readonly
                => /\ forwarded_offers' = forwarded_offers
                   /\ target' = target]_vars

\* the offer of the source book under id is a mirror the owner's other
\* engine placed there: the owner reports it as not usable
IsCounterpartMirror(id) == id \in counterpart

\* C25: propagate_offer never places in the target market a mirror of a
\* source offer that the owner reports as not usable (a mirror the owner's
\* other engine forwarded into the source market) nor of one sold under the
\* owner's own name: in every tick, every record the tick adds is for a
\* usable source offer of another seller; so no record ever has a mirror,
\* of this engine or of the other one, as its source offer.
C25_NoForwardingLoops ==
    [][step'.op = "tick"
       => \A k \in NewKeys :
             /\ ~IsCounterpartMirror(forwarded_offers'[k].source_offer.id)
             /\ forwarded_offers'[k].source_offer.id \notin DOMAIN forwarded_offers
             /\ forwarded_offers'[k].source_offer.seller # OWNER
             /\ forwarded_offers'[k].source_offer.id \notin DOMAIN target.offers]_vars

\* a tick has met an aged mirror of the counterpart in the source book and
\* dropped its age entry (line 122) instead of forwarding it, and has
\* forwarded an offer of a seller of the source area
C25_Witness ==
    /\ step.op = "tick" /\ step.exc = "none"
    /\ \E id \in DOMAIN source.offers :
          /\ IsCounterpartMirror(id)
          /\ source.offers[id].seller = OWNER
          /\ id \notin DOMAIN offer_age
          /\ id \notin DOMAIN forwarded_offers
    /\ \E k \in DOMAIN forwarded_offers : IsForwardedSource(k) /\ RecordIsLive(k)

\* propagate_offer at this tick meets the source offer id old enough,
\* usable, and sold under the owner's own name (line 128)
MeetsOwnOffer(id) ==
    /\ source.offers[id].seller = OWNER
    /\ id \notin DOMAIN forwarded_offers
    /\ ~IsCounterpartMirror(id)
    /\ OldEnough(id)

\* C26: when propagate_offer meets an aged, usable source offer whose seller
\* is the owner's own name, the tick does not return: it ends with an error
\* that reaches the caller.
C26_SelfForwardingFatal ==
    [][(step'.op = "tick" /\ \E id \in DOMAIN source.offers : MeetsOwnOffer(id))
       => step'.exc # "none"]_vars

\* this step is a split_offer in the market `side` on the offer id that returned
SplitsIn(side, id) ==
    /\ step'.op = "split_offer" /\ step'.market = side /\ step'.id = id
    /\ step'.exc = "none"

\* the ids this step drew for new offers of a market's book
NewIn(side) == DOMAIN World[side].offers' \ DOMAIN World[side].offers

\* at the end of the step the record under key k is the pair of the offers
\* now in the books under the ids s and t, each of energy e
PairedWith(k, s, t, e) ==
    /\ k \in DOMAIN forwarded_offers'
    /\ s \in DOMAIN source'.offers /\ t \in DOMAIN target'.offers
    /\ forwarded_offers'[k] =
          [source_offer |-> source'.offers[s], target_offer |-> target'.offers[t]]
    /\ source'.offers[s].energy = e /\ target'.offers[t].energy = e

\* C27: when a forwarded mirror T (record (S, T), energy E) is split in the
\* target market into an accepted offer (id T, energy a) and a residual Rt
\* (energy E - a), then at the return of the split the source book holds an
\* accepted offer under S (energy a) and a residual Rs (energy E - a) in
\* place of S, forwarded_offers maps S and T to the pair of the accepted
\* offers and Rs and Rt to the pair of the residuals, and it has no other
\* key than before besides Rs and Rt.
C27_TargetSplitMirrored ==
    [][\A T \in DOMAIN target.offers :
          (IsForwardedMirror(T) /\ RecordIsLive(T) /\ SplitsIn("target", T))
          => \E Rs \in NewIn("source"), Rt \in NewIn("target") :
                /\ NewIn("source") = {Rs} /\ NewIn("target") = {Rt}
                /\ PairedWith(forwarded_offers[T].source_offer.id,
                              forwarded_offers[T].source_offer.id, T, step'.energy)
                /\ PairedWith(T, forwarded_offers[T].source_offer.id, T, step'.energy)
                /\ PairedWith(Rs, Rs, Rt, target.offers[T].energy - step'.energy)
                /\ PairedWith(Rt, Rs, Rt, target.offers[T].energy - step'.energy)
                /\ DOMAIN forwarded_offers' = DOMAIN forwarded_offers \cup {Rs, Rt}]_vars

\* a split of a mirror in the target has returned: four keys, two records
C27_Witness ==
    /\ step.op = "split_offer" /\ step.market = "target" /\ step.exc = "none"
    /\ Cardinality(DOMAIN forwarded_offers) = 4
    /\ Cardinality(DOMAIN source.offers) = 2
    /\ \A k \in DOMAIN forwarded_offers : RecordIsLive(k)
    /\ forwarded_offers[step.id].target_offer.energy = step.energy

\* C28: when a forwarded source offer S with live mirror T (energy E) is
\* split in the source market into an accepted offer (energy a) and a
\* residual Rs (energy E - a), then at the return of the split the target
\* book holds, in place of the unsplit T, an accepted fragment of energy a
\* and a residual Rt of energy E - a, and forwarded_offers pairs the source
\* accepted offer with the target accepted fragment and Rs with Rt.
C28_SourceSplitMirrored ==
    [][\A S \in DOMAIN source.offers :
          (IsForwardedSource(S) /\ RecordIsLive(S) /\ SplitsIn("source", S))
          => \E Rs \in NewIn("source"), Rt \in NewIn("target") :
                /\ PairedWith(S, S, forwarded_offers[S].target_offer.id, step'.energy)
                /\ PairedWith(Rs, Rs, Rt, source.offers[S].energy - step'.energy)
                /\ PairedWith(Rt, Rs, Rt, source.offers[S].energy - step'.energy)]_vars

\* C29: when a forwarded mirror T of a source offer S that has the
\* offer_age entry t is split in the target market, then at the return of
\* the split the residual Rs of the mirrored split in the source market has
\* the offer_age entry t and S has no offer_age entry.
C29_AgeFollowsResidual ==
    [][\A T \in DOMAIN target.offers :
          (/\ IsForwardedMirror(T) /\ RecordIsLive(T) /\ SplitsIn("target", T)
           /\ forwarded_offers[T].source_offer.id \in DOMAIN offer_age)
          => \E Rs \in NewIn("source") :
                /\ Rs \in DOMAIN offer_age'
                /\ offer_age'[Rs] = offer_age[forwarded_offers[T].source_offer.id]
                /\ forwarded_offers[T].source_offer.id \notin DOMAIN offer_age']_vars

\* C30: when a forwarded mirror is traded in the target market while the
\* source offer of its record is no longer in the source book, the
\* accept_offer call in the target does not end with OfferNotFoundException,
\* and at its end neither id of the record is a key of forwarded_offers.
C30_StaleSourceAbsorbed ==
    [][\A T \in DOMAIN target.offers :
          (/\ IsForwardedMirror(T) /\ TradesIn("target", T)
           /\ forwarded_offers[T].source_offer.id \notin DOMAIN source.offers)
          => /\ step'.exc # "OfferNotFoundException"
             /\ forwarded_offers[T].source_offer.id \notin DOMAIN forwarded_offers'
             /\ T \notin DOMAIN forwarded_offers']_vars

\* the ids of the offers traded in a market, and the ids of its trades
TradedIds(m) == {m.trades[i].offer_bid.id : i \in 1 .. Len(m.trades)}
TradeIds(m) == {m.trades[i].id : i \in 1 .. Len(m.trades)}

\* an id issued to an offer that is in neither book and was never traded:
\* its offer was deleted
DeletedIds ==
    (1 .. uuids) \ (DOMAIN source.offers \cup DOMAIN target.offers
                       \cup TradedIds(source) \cup TradedIds(target)
                       \cup TradeIds(source) \cup TradeIds(target))

\* C31: an offer id that is not in a market's book after having been issued -
\* so every id that left the book through a completed trade or a successful
\* deletion - is not in that book after any further market operation, the
\* engine's reconciliation callbacks and the split_offer calls they make
\* from stored offer copies included: a book only gains ids issued by the
\* operation itself, and an operation trades no offer under such an id (the
\* id was in the book at no point of the operation).
C31_NoOrderReopens ==
    [][\A side \in {"source", "target"} : \A id \in 1 .. uuids :
          id \notin DOMAIN World[side].offers
          => /\ id \notin DOMAIN World[side].offers'
             /\ \A i \in Len(World[side].trades) + 1 .. Len(World[side].trades') :
                   World[side].trades'[i].offer_bid.id # id]_vars

\* an offer was deleted, and a later partial acceptance of a mirror made the
\* engine split the source offer from its stored copy and buy the accepted
\* part: the traded ids and the deleted id are in no book
C31_Witness ==
    /\ step.op = "accept_offer" /\ step.market = "target" /\ step.exc = "none"
    /\ step.energy < MaxEnergy
    /\ DeletedIds # {}
    /\ TradedIds(source) # {} /\ TradedIds(target) # {}
    /\ TradedIds(source) \cap DOMAIN source.offers = {}
    /\ TradedIds(target) \cap DOMAIN target.offers = {}

\* a source offer the engine may forward: in the source book, usable, not
\* sold under the owner's name
Forwardable(id) ==
    /\ id \in DOMAIN source.offers
    /\ usable_offer(World, source.offers[id])
    /\ source.offers[id].seller # OWNER

\* the target market takes the mirror _offer_in_market makes of the offer
TargetAccepts(id) == offer_in_market(World, source.offers[id]).exc = "none"

\* the tick the offer was first seen at, this one if it is new
FirstSeen(id) == IF id \in DOMAIN offer_age THEN offer_age[id] ELSE current_tick

\* the offer has a mirror in the target book
Mirrored(id) ==
    /\ id \in DOMAIN forwarded_offers
    /\ forwarded_offers[id].source_offer.id = id
    /\ forwarded_offers[id].target_offer.id \in DOMAIN target.offers

\* at a propagate_offer call an offer that is old enough is mirrored if the
\* target takes it, and else keeps its age entry and stays unmirrored
AttemptedWhenOldEnough ==
    current_tick' = current_tick + 1
    => \A id \in DOMAIN source.offers :
          (Forwardable(id) /\ current_tick - FirstSeen(id) >= min_offer_age)
          => IF TargetAccepts(id)
             THEN Mirrored(id)'
             ELSE /\ id \notin DOMAIN forwarded_offers'
                  /\ id \in DOMAIN offer_age'
                  /\ offer_age'[id] = FirstSeen(id)

\* ids of source offers
SourceIds == 1 .. 2 * MaxSteps

\* C32: at every propagate_offer call with current_tick >= first-seen tick +
\* min_offer_age, a usable source offer not sold by the owner is mirrored in
\* the target if the target takes it, and otherwise (the target rejects it)
\* keeps its offer_age entry, so that the next call attempts it again; and
\* while ticks keep arriving, every such offer the target takes is eventually
\* mirrored unless it leaves the source book or the target closes.
C32_EventualForwarding ==
    /\ [][AttemptedWhenOldEnough]_vars
    /\ \A id \in SourceIds :
          (Forwardable(id) /\ TargetAccepts(id))
          ~> (Mirrored(id) \/ id \notin DOMAIN source.offers \/ target.readonly)

\* an offer the target rejected at an earlier propagate_offer call is still
\* in the source book with the age entry of its first tick, and the last
\* call attempted it again
C32_Witness ==
    /\ step.op = "tick"
    /\ \E id \in DOMAIN source.offers :
          /\ Forwardable(id) /\ ~TargetAccepts(id)
          /\ id \in DOMAIN offer_age
          /\ current_tick - 1 >= offer_age[id] + min_offer_age + 1

\* the energy on offer in a book
RECURSIVE EnergyOnOffer(_, _)
EnergyOnOffer(book, ids) ==
    IF ids = {} THEN 0
    ELSE book[CHOOSE i \in ids : TRUE].energy
         + EnergyOnOffer(book, ids \ {CHOOSE i \in ids : TRUE})

\* C33: when a listener raises while the split notification of a partial
\* accept_offer is delivered, the book after the call is the book before it:
\* the original offer with its energy and price, no accepted fragment, no
\* residual, the same total energy on offer.
C33_ListenerFailureKeepsBook ==
    [][last'.op = "accept_offer" /\ last'.exc = "ListenerError"
       => /\ offers' = offers
          /\ EnergyOnOffer(offers', DOMAIN offers') = EnergyOnOffer(offers, DOMAIN offers)]_vars

\* every record is kept under ids of its own two offers
KeyedByOwnIds ==
    \A k \in DOMAIN forwarded_offers :
       k \in {forwarded_offers[k].source_offer.id, forwarded_offers[k].target_offer.id}

\* C34: every record event_offer_traded can find under a traded offer's id
\* has that id as its source id or its target id, so the RuntimeError branch
\* is never taken: no operation ends in a RuntimeError; and the two closing
\* assertions never fail: no operation ends in an AssertionError, and after
\* an acceptance of a recorded offer that returned, neither the record's
\* source id nor its target id is a key of forwarded_offers.
C34_UnknownCombinationUnreachable ==
    [][/\ KeyedByOwnIds'
       /\ step'.exc \notin {"RuntimeError", "AssertionError"}
       /\ \A side \in {"source", "target"} : \A id \in DOMAIN forwarded_offers :
             (TradesIn(side, id) /\ step'.exc = "none")
             => /\ forwarded_offers[id].source_offer.id \notin DOMAIN forwarded_offers'
                /\ forwarded_offers[id].target_offer.id \notin DOMAIN forwarded_offers']_vars

\* the handler has gone through both of its branches: a mirror was accepted
\* in part in the target and its source offer bought, then the recorded
\* residual was accepted in the source and its mirror retracted
C34_Witness ==
    /\ steps = 5
    /\ step.op = "accept_offer" /\ step.market = "source" /\ step.exc = "none"
    /\ Len(target.trades) = 1 /\ LastTrade(target).seller = OWNER
    /\ ~IsNone(LastTrade(target).residual)
    /\ Len(source.trades) = 2
    /\ source.trades[1].buyer = OWNER
    /\ source.trades[2].buyer \in OutsideBuyers
    /\ source.trades[2].offer_bid.id # source.trades[1].offer_bid.id
    /\ Val(LastTrade(target).residual).id \notin DOMAIN target.offers
    /\ target.offers = << >>
    /\ forwarded_offers = << >>

\* the energy of the first n trades of a market that the owner sold
RECURSIVE OwnerSold(_, _)
OwnerSold(m, n) ==
    IF n = 0 THEN 0
    ELSE OwnerSold(m, n - 1)
         + (IF m.trades[n].seller = OWNER THEN m.trades[n].offer_bid.energy ELSE 0)

\* the energy of the first n trades of a market that the owner bought
RECURSIVE OwnerBought(_, _)
OwnerBought(m, n) ==
    IF n = 0 THEN 0
    ELSE OwnerBought(m, n - 1)
         + (IF m.trades[n].buyer = OWNER THEN m.trades[n].offer_bid.energy ELSE 0)

\* C35: between two operations, the energy traded in the target market out
\* of the engine's mirrors (trades the owner sold) equals the energy the
\* owner bought in the source market.
C35_CrossMarketConservation ==
    OwnerSold(target, Len(target.trades)) = OwnerBought(source, Len(source.trades))

\* the engine's live mirrors: the offers sold by the owner in the book of a
\* target market that still takes acceptances (a closed market trades nothing)
LiveMirrors ==
    IF target.readonly THEN {}
    ELSE {T \in DOMAIN target.offers : target.offers[T].seller = OWNER}

\* the live mirrors of the source offer S, by the engine's records
MirrorsOf(S) ==
    {T \in LiveMirrors : /\ T \in DOMAIN forwarded_offers
                          /\ forwarded_offers[T].source_offer.id = S}

\* the live source offers that have a live mirror
MirroredSources == {S \in DOMAIN source.offers : MirrorsOf(S) # {}}

\* C36: between two operations every live source offer has at most one live
\* mirror in the target book, and the energy of the engine's live mirrors in
\* the target book is at most the energy of the live source offers they
\* mirror.
C36_NoDuplicatedSupply ==
    /\ \A S \in DOMAIN source.offers : Cardinality(MirrorsOf(S)) <= 1
    /\ EnergyOnOffer(target.offers, LiveMirrors)
          <= EnergyOnOffer(source.offers, MirroredSources)

\* a mirror was accepted in part, the residual of the source offer was first
\* seen by a later propagate_offer call, and the last call found it old
\* enough: it still has the one mirror made by the split
C36_Witness ==
    /\ step.op = "tick"
    /\ target.trades # << >> /\ ~IsNone(target.trades[1].residual)
    /\ \E S \in DOMAIN source.offers :
          /\ MirrorsOf(S) = {Val(target.trades[1].residual).id}
          /\ S \in DOMAIN offer_age
          /\ offer_age[S] >= 2
          /\ current_tick - 1 >= offer_age[S] + min_offer_age

\* C37: when the listeners of the target market hear of a newly forwarded
\* mirror, its ForwardRecord is already in forwarded_offers, for an
\* IAAEngine and for a BalancingEngine alike: after a tick during which a
\* listener accepted every mirror it was told of, the tick has returned,
\* the owner has bought in the source market the energy of every mirror
\* sold, no sold mirror is a key of forwarded_offers, and every record left
\* has its source offer and its mirror in their books
SoldMirrors == {i \in Len(target.trades) + 1 .. Len(target.trades') : target.trades'[i].seller = OWNER}
C37_RecordBeforeAnnouncement ==
    [][step'.op = "tick_listened"
       => /\ step'.exc = "none"
          /\ \A i \in SoldMirrors :
                /\ target.trades'[i].offer_bid.id \notin DOMAIN forwarded_offers'
                /\ \E j \in Len(source.trades) + 1 .. Len(source.trades') :
                      /\ source.trades'[j].buyer = OWNER
                      /\ source.trades'[j].offer_bid.energy
                            = target.trades'[i].offer_bid.energy
          /\ \A k \in DOMAIN forwarded_offers' :
                /\ forwarded_offers'[k].source_offer.id \in DOMAIN source.offers'
                /\ forwarded_offers'[k].target_offer.id \in DOMAIN target.offers'
          /\ \A T \in DOMAIN target.offers' :
                target.offers'[T].seller = OWNER => T \in DOMAIN forwarded_offers']_vars

\* C38: accept_offer records no trade at a trade_rate below the energy rate
\* of the accepted offer (beyond the floating tolerance), whether the offer
\* is accepted in part or in full: every acceptance that returned was given
\* no trade_rate or one not below the offer's rate
C38_SellerRateFloor ==
    IsAccepted(last) => Admissible(Val(last.args).trade_rate, Val(last.offer))

(* ============ HomeMeterStrategy in one-sided markets (d3a) ============= *)
\* number of events the driver delivers to the home meter
MaxMeterSteps == 3
\* the most energy the device has to buy in one market, in Wh
MaxRequirement == 2
\* energy (Wh) and rate of the offers posted in the area's markets
MeterOfferEnergies == {1, 3}
MeterOfferRates == {1, 2}
\* bid_update: the rate the device pays at most starts at initial_buying_rate
\* and rises by one at every update up to final_buying_rate
initial_buying_rate == 1
final_buying_rate == 2
\* owner.name, and another seller of the area
METER == "meter"
MeterSellers == {"pv", METER}

\* the outcome of a handler of the strategy: the strategy and its markets
\* after it, and the exception that left it ("none" when it returned)
MeterDone(s) == [s |-> s, exc |-> "none"]
MeterFails(s, exc) == [s |-> s, exc |-> exc]

\* --- HomeMeterState, as the strategy uses it (d3a.models.state) ---
can_buy_more_energy(s, market) == s.energy_requirement_Wh[market] > 0

calculate_energy_to_accept(s, offer_energy_Wh, market) ==
    IF offer_energy_Wh < s.energy_requirement_Wh[market] THEN offer_energy_Wh
    ELSE s.energy_requirement_Wh[market]

decrement_energy_requirement(s, purchased_energy_Wh, market) ==
    [s EXCEPT !.energy_requirement_Wh[market] = @ - purchased_energy_Wh]

\* --- bid_update (d3a.models.strategy.update_frequency) ---
get_updated_rate(s) ==
    IF initial_buying_rate + s.update_counter < final_buying_rate
    THEN initial_buying_rate + s.update_counter
    ELSE final_buying_rate

increment_update_counter_all_markets(s) ==
    [s EXCEPT !.update_counter = @ + 1]

\* --- the one-sided market of the area (d3a.models.market) ---
\* an offer; energy is held in Wh, the unit the strategy converts it to with
\* "energy * 1000.0" (line 546) and back with "energy_Wh / 1000.0" (line 547)
MeterOffer(id, energy_Wh, energy_rate, seller) ==
    [id |-> id, energy |-> energy_Wh, energy_rate |-> energy_rate, seller |-> seller]

\* market.most_affordable_offers: the offers of the lowest rate
most_affordable_offers(book) ==
    {id \in DOMAIN book : \A other \in DOMAIN book :
        book[id].energy_rate <= book[other].energy_rate}

\* self.accept_offer(market, offer, energy=...): the offer leaves the book; a
\* residual of the energy not taken enters it under a new id
meter_accept_offer(s, market, offer, energy_Wh) ==
    IF offer.id \notin DOMAIN s.offers[market]
    THEN MeterFails(s, "OfferNotFoundException")
    ELSE IF energy_Wh <= 0 \/ energy_Wh > offer.energy \/ offer.seller = METER
    THEN MeterFails(s, "InvalidTrade")
    ELSE IF energy_Wh < offer.energy
    THEN MeterDone([s EXCEPT !.offers[market] =
                       Put(Pop(@, offer.id), uuid4(s.uuid),
                           MeterOffer(uuid4(s.uuid), offer.energy - energy_Wh,
                                      offer.energy_rate, offer.seller)),
                             !.uuid = @ + 1])
    ELSE MeterDone([s EXCEPT !.offers[market] = Pop(@, offer.id)])

\* --- _offer_rate_can_be_accepted (lines 505-510); rates are whole numbers,
\* on which round(., DEFAULT_PRECISION) and the tolerance change nothing ---
offer_rate_can_be_accepted(s, offer) == offer.energy_rate <= get_updated_rate(s)

\* --- _find_acceptable_offer (lines 556-559): random.choice takes any one of
\* the most affordable offers; pick is the one it takes ---
find_acceptable_offer(s, market, pick) ==
    IF pick \in most_affordable_offers(s.offers[market])
    THEN Some(s.offers[market][pick])
    ELSE None

\* --- _one_sided_market_event_tick (lines 529-554) ---
\* lines 547-554: ra is the outcome of accept_offer; the requirement is
\* decremented when it returned
one_sided_market_event_tick_accepted(ra, market, energy_Wh) ==
    IF ra.exc = "none"
    THEN MeterDone(decrement_energy_requirement(ra.s, energy_Wh, market))
    ELSE IF ra.exc \in MarketException THEN MeterDone(ra.s)
    ELSE ra

\* lines 543-551: the offer is bought when there is one and its rate can be
\* accepted
one_sided_market_event_tick_buy(s, market, acceptable_offer) ==
    IF IsNone(acceptable_offer) THEN MeterDone(s)
    ELSE IF ~offer_rate_can_be_accepted(s, Val(acceptable_offer)) THEN MeterDone(s)
    ELSE one_sided_market_event_tick_accepted(
             meter_accept_offer(
                 s, market, Val(acceptable_offer),
                 calculate_energy_to_accept(s, Val(acceptable_offer).energy, market)),
             market,
             calculate_energy_to_accept(s, Val(acceptable_offer).energy, market))

\* lines 533-538: the three early returns; line 537 reads offer.id, which
\* raises AttributeError, outside the try block, when offer is None.
\* line 541: offer if offer else self._find_acceptable_offer(market)
one_sided_market_event_tick(s, market, offer, pick) ==
    IF ~can_buy_more_energy(s, market) THEN MeterDone(s)
    ELSE IF IsNone(offer) /\ DOMAIN s.offers[market] = {} THEN MeterDone(s)
    ELSE IF IsNone(offer) THEN MeterFails(s, "AttributeError")
    ELSE IF Val(offer).id \notin DOMAIN s.offers[market] THEN MeterDone(s)
    ELSE one_sided_market_event_tick_buy(
             s, market,
             IF ~IsNone(offer) THEN offer ELSE find_acceptable_offer(s, market, pick))

\* --- _event_tick_consumption (lines 512-523), MARKET_TYPE == 1 ---
\* the markets of area.all_markets one after the other; r is the outcome so
\* far, picks[market] what random.choice takes in that market
RECURSIVE event_tick_consumption_markets(_, _, _)
event_tick_consumption_markets(r, markets, picks) ==
    IF r.exc # "none" \/ markets = {} THEN r
    ELSE event_tick_consumption_markets(
             one_sided_market_event_tick(
                 r.s, CHOOSE m \in markets : \A n \in markets : m <= n, None,
                 picks[CHOOSE m \in markets : \A n \in markets : m <= n]),
             markets \ {CHOOSE m \in markets : \A n \in markets : m <= n}, picks)

\* lines 522-523, reached when no market raised
event_tick_consumption_counted(r) ==
    IF r.exc # "none" THEN r
    ELSE MeterDone(increment_update_counter_all_markets(r.s))

\* event_tick (lines 205-210); the production side posts and updates the
\* device's own offers and is left out
event_tick(s, picks) ==
    event_tick_consumption_counted(
        event_tick_consumption_markets(MeterDone(s), MeterMarkets, picks))

\* --- event_offer (lines 192-203), MARKET_TYPE == 1 ---
event_offer(s, market, offer) ==
    IF offer.seller # METER
    THEN one_sided_market_event_tick(s, market, Some(offer), 0)
    ELSE MeterDone(s)

(* ----------------------- the home meter's driver ----------------------- *)
\* the outcome r of an event becomes the next state
MeterInvoke(r, op, market) ==
    /\ meter.steps < MaxMeterSteps
    /\ meter' = [r.s EXCEPT !.steps = meter.steps + 1, !.op = op,
                            !.market = market, !.exc = r.exc]
    /\ UNCHANGED <<market_vars, engine_vars, launcher>>

\* a seller posts an offer in a market of the area; the market announces it
\* and the home meter's event_offer runs before the call returns
MeterPostOffer(market, energy_Wh, energy_rate, seller) ==
    MeterInvoke(
        event_offer(
            [meter EXCEPT !.offers[market] =
                Put(@, uuid4(meter.uuid),
                    MeterOffer(uuid4(meter.uuid), energy_Wh, energy_rate, seller)),
                          !.uuid = @ + 1],
            market,
            MeterOffer(uuid4(meter.uuid), energy_Wh, energy_rate, seller)),
        "event_offer", market)

\* the area's TICK reaches the home meter
MeterTick ==
    \E picks \in [MeterMarkets -> 0 .. meter.uuid] :
        /\ \A market \in MeterMarkets :
              picks[market] \in most_affordable_offers(meter.offers[market]) \cup
                  (IF DOMAIN meter.offers[market] = {} THEN {0} ELSE {})
        /\ MeterInvoke(event_tick(meter, picks), "event_tick", 0)

\* the home meter at the start of a market slot: in every market an energy
\* requirement of its consumption profile; markets and engine as built
HomeMeterInit ==
    /\ BalancingMarketInit
    /\ IAAEngine(RInt(0), TRUE)
    /\ launcher = Launcher(n_jobs_default, max_delay_seconds_default)
    /\ \E requirement_Wh \in [MeterMarkets -> 0 .. MaxRequirement] :
          meter = HomeMeterStrategy(requirement_Wh)

HomeMeterNext ==
    \/ \E market \in MeterMarkets, energy_Wh \in MeterOfferEnergies,
          energy_rate \in MeterOfferRates, seller \in MeterSellers :
          MeterPostOffer(market, energy_Wh, energy_rate, seller)
    \/ MeterTick

HomeMeterSpec == HomeMeterInit /\ [][HomeMeterNext]_vars

\* C39: on every TICK in a one-sided market the home meter's handler ends
\* without an error, and in each market where the device can still buy
\* energy and one of the most affordable offers of a non-empty book has a
\* rate within the device's maximum buying rate, it accepts such an offer
\* and the energy requirement of that market decreases
TickCanBuyIn(market) ==
    /\ can_buy_more_energy(meter, market)
    /\ \E id \in most_affordable_offers(meter.offers[market]) :
          /\ offer_rate_can_be_accepted(meter, meter.offers[market][id])
          /\ meter.offers[market][id].seller # METER
C39_HomeMeterBuysOnTick ==
    [][meter'.op = "event_tick"
       => /\ meter'.exc = "none"
          /\ \A market \in MeterMarkets :
                TickCanBuyIn(market)
                => meter'.energy_requirement_Wh[market]
                     < meter.energy_requirement_Wh[market]]_vars

(* ========================== Launcher (d3a) ============================= *)
\* the largest n_jobs a launcher is built with
MaxJobs == 2
\* seconds the launcher is watched for
MaxClock == 6

\* --- is_crowded (lines 51-57): a job is enqueued and the earliest has
\* waited max_delay or longer; the queue holds the jobs' enqueued_at ---
is_crowded(l) ==
    /\ l.queue # {}
    /\ \E earliest \in l.queue :
          /\ \A enqueued_at \in l.queue : earliest <= enqueued_at
          /\ l.now - earliest >= l.max_delay

\* --- _start_worker (lines 59-60): one more worker process ---
start_worker(l) == [l EXCEPT !.workers = @ + 1]

\* line 47-49 after the sleep: "n_jobs <= self.n_jobs and self.is_crowded()"
run_iteration_slept(l) ==
    IF l.local_n_jobs <= l.n_jobs /\ is_crowded(l)
    THEN [start_worker(l) EXCEPT !.local_n_jobs = @ + 1, !.crowded = TRUE]
    ELSE [l EXCEPT !.crowded = is_crowded(l)]

\* the outcome of a step becomes the next state
LauncherStep(l) ==
    /\ launcher' = l
    /\ UNCHANGED <<market_vars, engine_vars, meter>>

\* run (lines 43-44): the first worker, the local n_jobs at 0
LauncherRun ==
    /\ launcher.pc = "init"
    /\ LauncherStep([start_worker(launcher) EXCEPT !.pc = "loop", !.local_n_jobs = 0])

\* one iteration of the loop of run (lines 45-49): sleep(1), then the test
LauncherIteration ==
    /\ launcher.pc = "loop"
    /\ launcher.now < MaxClock
    /\ LauncherStep(run_iteration_slept([launcher EXCEPT !.now = @ + 1]))

\* a client enqueues a job now
LauncherEnqueue ==
    /\ launcher.now \notin launcher.queue
    /\ LauncherStep([launcher EXCEPT !.queue = @ \cup {launcher.now}])

\* a worker takes a job off the queue
LauncherDequeue(enqueued_at) ==
    /\ launcher.workers > 0
    /\ enqueued_at \in launcher.queue
    /\ LauncherStep([launcher EXCEPT !.queue = @ \ {enqueued_at}])

LauncherInit ==
    /\ BalancingMarketInit
    /\ IAAEngine(RInt(0), TRUE)
    /\ meter = HomeMeterStrategy([market \in MeterMarkets |-> 0])
    /\ \E n_jobs \in 1 .. MaxJobs : launcher = Launcher(n_jobs, max_delay_seconds_default)

LauncherNext ==
    \/ LauncherRun
    \/ LauncherIteration
    \/ LauncherEnqueue
    \/ \E enqueued_at \in 0 .. MaxClock : LauncherDequeue(enqueued_at)

LauncherSpec == LauncherInit /\ [][LauncherNext]_vars

\* C40: whatever is_crowded() answers, run starts at most n_jobs worker
\* processes in all, the first one included, and after the first one it
\* starts a worker only in an iteration in which the queue is crowded
C40_WorkerBound ==
    [][/\ launcher'.workers <= launcher'.n_jobs
       /\ (launcher.pc = "loop" /\ launcher'.workers > launcher.workers)
          => is_crowded([launcher EXCEPT !.now = @ + 1])]_vars

====
